---- MODULE Spec2Model ----
(***************************************************************************)
(* huntstack scrapers: the refuge-count ingestion path.                    *)
(*                                                                         *)
(*   species_mapping.py   resolve_species_slug and its three tables        *)
(*   pipelines.py         DatabasePipeline._process_refuge_count           *)
(*   scrapers/refuge_counts.py   RefugeCountsScraper.run                   *)
(*   parsers/*.py, extractors/llm.py   the survey-document parsers         *)
(*                                                                         *)
(* Text is modelled as it is in Python: a label is a sequence of           *)
(* one-character strings, so that strip(), lower() and the substring tests *)
(* of the parsers are computed, not assumed.  The right single quotation   *)
(* mark U+2019 is the one-element string "u2019".                          *)
(*                                                                         *)
(* Optional values: a str | None whose values are atomic strings uses the  *)
(* string None; an int | None is <<>> or <<n>>; a date is <<>> or          *)
(* <<year, month, day>>.                                                   *)
(***************************************************************************)
EXTENDS Integers, Sequences, FiniteSets, TLC

VARIABLES
  \* ---- persistence (PostgreSQL table refuge_counts, committed rows) ----
  refuge_counts,   \* bag of rows: a function row -> number of copies
  last_store,      \* the last direct _process_refuge_count call: item and outcome
  \* ---- RefugeCountsScraper.run ----
  pc,              \* position of run(): "idle", "loop", "store", "returned", "raised"
  dry_run,         \* self.dry_run
  conn,            \* self._conn: "unset", "open" or "closed"
  location_map,    \* self._location_map, loaded by _open_db
  sources,         \* the local variable sources (after the --source filter)
  src_idx,         \* index into sources of the source being handled
  items,           \* items of the current source not yet passed to _store_item
  all_items,       \* the list run() returns
  attempted,       \* names of the sources whose handler was called, in order
  handled,         \* per attempted source: its outcome and the items it yielded
  store_calls,     \* items passed to _store_item during this run, in order
  \* ---- one parser applied to one document ----
  doc,             \* the input document (a record with a fmt field)
  today,           \* the current date at ingestion time
  parsed,          \* "no" before the parser ran, "yes" once it returned,
                   \* "raised" once an exception left it
  results,         \* the parser's output: a sequence of ParseResult records
  reparsed,        \* <<>>, or <<the output of a second run on the same doc>>
  \* ---- _handle_pdf_url_list on one source ----
  pdf_urls,        \* source["pdf_urls"], the candidate URLs in order
  url_idx,         \* index into pdf_urls of the candidate being tried
  probe_pc,        \* "idle", "head" (before req.head), "get" (before the
                   \* download) or "returned"
  net_log,         \* the requests issued so far, in order, with their answers
  pdf_items,       \* the local variable items of the handler
  \* ---- scrapers/run.py main() ----
  main_pc,         \* "idle", "running" (inside runner(args)) or "exited"
  spider,          \* the spider argument of the command line
  exit_code,       \* <<>> while the process lives, then <<its exit status>>
  \* ---- extract_regulations.py main() ----
  xr_pc,           \* "idle", "loop" (inside the for loop), "returned" or "raised"
  xr_dry_run,      \* args.dry_run
  xr_states,       \* states_to_process
  xr_idx,          \* index into xr_states of the state processed next
  xr_conn,         \* main's conn: "open" or "closed"
  seasons,         \* table seasons of the year: state -> set of committed names
  xr_log,          \* per state for which process_state was called: how it ended
  \* ---- ingest_mwi.py ingest_csv() ----
  mw_pc,           \* "idle", "rows" (inside the loop over the CSV) or "returned"
  mw_dry_run,      \* dry_run
  mw_read,         \* number of CSV rows read so far
  total_rows,      \* the local counter total_rows
  inserted,        \* the local counter inserted
  mwi_counts,      \* committed mwi_annual rows of refuge_counts, by their key
  mw_txn,          \* rows inserted in the open transaction, not yet committed
  mw_executed,     \* keys whose INSERT executed without error in this run
  \* ---- StateRegulationsScraper._scrape_state ----
  cr_pc,           \* "idle", "crawl" (inside the while loop) or "returned"
  cr_dry_run,      \* self.dry_run
  site,            \* the pages that answer 200: url -> hrefs of its anchors
  visited,         \* the local set visited
  queue,           \* the local list queue
  stored,          \* the local counter stored
  requests,        \* the requests issued so far, in order
  \* ---- resolve_species_slug applied to one label ----
  label,           \* the raw species name
  resolved         \* <<>> before the call, then <<slug or None>>

storeVars == <<refuge_counts, last_store>>
runVars == <<pc, dry_run, conn, location_map, sources, src_idx, items, all_items,
             attempted, handled, store_calls>>
parseVars == <<doc, today, parsed, results, reparsed>>
resolveVars == <<label, resolved>>
probeVars == <<pdf_urls, url_idx, probe_pc, net_log, pdf_items>>
mainVars == <<main_pc, spider, exit_code>>
extractVars == <<xr_pc, xr_dry_run, xr_states, xr_idx, xr_conn, seasons, xr_log>>
ingestVars == <<mw_pc, mw_dry_run, mw_read, total_rows, inserted, mwi_counts,
                mw_txn, mw_executed>>
crawlVars == <<cr_pc, cr_dry_run, site, visited, queue, stored, requests>>
scriptVars == <<extractVars, ingestVars, crawlVars>>
vars == <<storeVars, runVars, parseVars, resolveVars, probeVars, mainVars, scriptVars>>

\* Python's None, for optional values that are atomic strings.
None == "None"

(***************************************************************************)
(* str.strip(), str.lower(), substring test                                *)
(***************************************************************************)
UpperLetters ==
  <<"A","B","C","D","E","F","G","H","I","J","K","L","M",
    "N","O","P","Q","R","S","T","U","V","W","X","Y","Z">>

LowerLetters ==
  <<"a","b","c","d","e","f","g","h","i","j","k","l","m",
    "n","o","p","q","r","s","t","u","v","w","x","y","z">>

\* The ASCII case mappings of str.lower() and str.upper(), as functions.
LowerOf ==
  [c \in {UpperLetters[i] : i \in DOMAIN UpperLetters} |->
     LowerLetters[CHOOSE i \in DOMAIN UpperLetters : UpperLetters[i] = c]]

UpperOf ==
  [c \in {LowerLetters[i] : i \in DOMAIN LowerLetters} |->
     UpperLetters[CHOOSE i \in DOMAIN LowerLetters : LowerLetters[i] = c]]

IsUpper(c) == c \in DOMAIN LowerOf

IsLower(c) == c \in DOMAIN UpperOf

LowerChar(c) == IF IsUpper(c) THEN LowerOf[c] ELSE c

UpperChar(c) == IF IsLower(c) THEN UpperOf[c] ELSE c

\* s.lower()
Lower(s) == [i \in 1..Len(s) |-> LowerChar(s[i])]

\* s.upper()
Upper(s) == [i \in 1..Len(s) |-> UpperChar(s[i])]

IsSpace(c) == c = " "

RECURSIVE LStrip(_)
LStrip(s) ==
  IF s = <<>> THEN s ELSE IF IsSpace(Head(s)) THEN LStrip(Tail(s)) ELSE s

RECURSIVE RStrip(_)
RStrip(s) ==
  IF s = <<>> THEN s
  ELSE IF IsSpace(s[Len(s)]) THEN RStrip(SubSeq(s, 1, Len(s) - 1)) ELSE s

\* s.strip(): drop the leading and trailing whitespace
Strip(s) == RStrip(LStrip(s))

\* sub in s
Contains(s, sub) ==
  \E i \in 1..(Len(s) - Len(sub) + 1) : SubSeq(s, i, i + Len(sub) - 1) = sub

(***************************************************************************)
(* species_mapping.py                                                      *)
(***************************************************************************)
\* Core slug mapping, keyed by lower-case label (species_mapping.py:8-56).
SPECIES_ALIASES ==
  <<
    [k |-> <<"d","u","c","k">>, v |-> "mallard"],  \* duck
    [k |-> <<"d","u","c","k","s">>, v |-> "mallard"],  \* ducks
    [k |-> <<"m","a","l","l","a","r","d">>, v |-> "mallard"],  \* mallard
    [k |-> <<"m","a","l","l","a","r","d","s">>, v |-> "mallard"],  \* mallards
    [k |-> <<"t","e","a","l">>, v |-> "green-winged-teal"],  \* teal
    [k |-> <<"g","r","e","e","n","-","w","i","n","g","e","d"," ","t","e","a","l">>, v |-> "green-winged-teal"],  \* green-winged teal
    [k |-> <<"b","l","u","e","-","w","i","n","g","e","d"," ","t","e","a","l">>, v |-> "blue-winged-teal"],  \* blue-winged teal
    [k |-> <<"c","i","n","n","a","m","o","n"," ","t","e","a","l">>, v |-> "green-winged-teal"],  \* cinnamon teal
    [k |-> <<"p","i","n","t","a","i","l">>, v |-> "pintail"],  \* pintail
    [k |-> <<"n","o","r","t","h","e","r","n"," ","p","i","n","t","a","i","l">>, v |-> "pintail"],  \* northern pintail
    [k |-> <<"w","o","o","d"," ","d","u","c","k">>, v |-> "wood-duck"],  \* wood duck
    [k |-> <<"g","a","d","w","a","l","l">>, v |-> "gadwall"],  \* gadwall
    [k |-> <<"w","i","g","e","o","n">>, v |-> "american-wigeon"],  \* wigeon
    [k |-> <<"a","m","e","r","i","c","a","n"," ","w","i","g","e","o","n">>, v |-> "american-wigeon"],  \* american wigeon
    [k |-> <<"b","a","l","d","p","a","t","e">>, v |-> "american-wigeon"],  \* baldpate
    [k |-> <<"s","h","o","v","e","l","e","r">>, v |-> "northern-shoveler"],  \* shoveler
    [k |-> <<"n","o","r","t","h","e","r","n"," ","s","h","o","v","e","l","e","r">>, v |-> "northern-shoveler"],  \* northern shoveler
    [k |-> <<"s","p","o","o","n","b","i","l","l">>, v |-> "northern-shoveler"],  \* spoonbill
    [k |-> <<"c","a","n","v","a","s","b","a","c","k">>, v |-> "canvasback"],  \* canvasback
    [k |-> <<"r","e","d","h","e","a","d">>, v |-> "redhead"],  \* redhead
    [k |-> <<"s","c","a","u","p">>, v |-> "scaup"],  \* scaup
    [k |-> <<"b","l","u","e","b","i","l","l">>, v |-> "scaup"],  \* bluebill
    [k |-> <<"b","l","u","e","b","i","l","l","s">>, v |-> "scaup"],  \* bluebills
    [k |-> <<"r","i","n","g","-","n","e","c","k","e","d"," ","d","u","c","k">>, v |-> "ring-necked-duck"],  \* ring-necked duck
    [k |-> <<"r","i","n","g","n","e","c","k">>, v |-> "ring-necked-duck"],  \* ringneck
    [k |-> <<"r","i","n","g","b","i","l","l">>, v |-> "ring-necked-duck"],  \* ringbill
    [k |-> <<"b","u","f","f","l","e","h","e","a","d">>, v |-> "bufflehead"],  \* bufflehead
    [k |-> <<"b","u","t","t","e","r","b","a","l","l">>, v |-> "bufflehead"],  \* butterball
    [k |-> <<"r","u","d","d","y"," ","d","u","c","k">>, v |-> "ruddy-duck"],  \* ruddy duck
    [k |-> <<"m","o","t","t","l","e","d"," ","d","u","c","k">>, v |-> "mottled-duck"],  \* mottled duck
    [k |-> <<"s","n","o","w"," ","g","o","o","s","e">>, v |-> "snow-goose"],  \* snow goose
    [k |-> <<"s","n","o","w"," ","g","e","e","s","e">>, v |-> "snow-goose"],  \* snow geese
    [k |-> <<"l","i","g","h","t"," ","g","o","o","s","e">>, v |-> "snow-goose"],  \* light goose
    [k |-> <<"l","i","g","h","t"," ","g","e","e","s","e">>, v |-> "snow-goose"],  \* light geese
    [k |-> <<"b","l","u","e"," ","g","o","o","s","e">>, v |-> "snow-goose"],  \* blue goose
    [k |-> <<"r","o","s","s"," ","g","o","o","s","e">>, v |-> "ross-goose"],  \* ross goose
    [k |-> <<"r","o","s","s","'","s"," ","g","o","o","s","e">>, v |-> "ross-goose"],  \* ross's goose
    [k |-> <<"c","a","n","a","d","a"," ","g","o","o","s","e">>, v |-> "canada-goose"],  \* canada goose
    [k |-> <<"c","a","n","a","d","a"," ","g","e","e","s","e">>, v |-> "canada-goose"],  \* canada geese
    [k |-> <<"d","a","r","k"," ","g","o","o","s","e">>, v |-> "canada-goose"],  \* dark goose
    [k |-> <<"d","a","r","k"," ","g","e","e","s","e">>, v |-> "canada-goose"],  \* dark geese
    [k |-> <<"w","h","i","t","e","-","f","r","o","n","t","e","d"," ","g","o","o","s","e">>, v |-> "white-fronted-goose"],  \* white-fronted goose
    [k |-> <<"g","r","e","a","t","e","r"," ","w","h","i","t","e","-","f","r","o","n","t","e","d"," ","g","o","o","s","e">>, v |-> "white-fronted-goose"],  \* greater white-fronted goose
    [k |-> <<"s","p","e","c","k","l","e","b","e","l","l","y">>, v |-> "white-fronted-goose"],  \* specklebelly
    [k |-> <<"s","p","e","c","k">>, v |-> "white-fronted-goose"]  \* speck
  >>

\* MWI CSV column headers -> slug, None = not tracked (species_mapping.py:60-97).
MWI_COLUMN_MAPPING ==
  <<
    [k |-> <<"M","a","l","l","a","r","d">>, v |-> "mallard"],  \* Mallard
    [k |-> <<"C","a","n","a","d","a"," ","G","o","o","s","e"," ","(","n","o","t"," ","s","p","e","c","i","a","t","e","d",")">>, v |-> "canada-goose"],  \* Canada Goose (not speciated)
    [k |-> <<"L","i","g","h","t"," ","G","e","e","s","e"," ","(","n","o","t"," ","d","i","f","f","e","r","e","n","t","i","a","t","e","d"," ","b","y"," ","c","o","l","o","r"," ","p","h","a","s","e",")">>, v |-> "snow-goose"],  \* Light Geese (not differentiated by color phase)
    [k |-> <<"G","r","e","a","t","e","r"," ","W","h","i","t","e","-","f","r","o","n","t","e","d"," ","G","o","o","s","e">>, v |-> "white-fronted-goose"],  \* Greater White-fronted Goose
    [k |-> <<"G","r","e","e","n","-","w","i","n","g","e","d"," ","T","e","a","l">>, v |-> "green-winged-teal"],  \* Green-winged Teal
    [k |-> <<"B","l","u","e","-","w","i","n","g","e","d"," ","a","n","d"," ","C","i","n","n","a","m","o","n"," ","T","e","a","l"," ","(","n","o","t"," ","s","p","e","c","i","a","t","e","d",")">>, v |-> "blue-winged-teal"],  \* Blue-winged and Cinnamon Teal (not speciated)
    [k |-> <<"N","o","r","t","h","e","r","n"," ","P","i","n","t","a","i","l">>, v |-> "pintail"],  \* Northern Pintail
    [k |-> <<"W","o","o","d"," ","D","u","c","k">>, v |-> "wood-duck"],  \* Wood Duck
    [k |-> <<"A","m","e","r","i","c","a","n"," ","W","i","g","e","o","n">>, v |-> "american-wigeon"],  \* American Wigeon
    [k |-> <<"B","u","f","f","l","e","h","e","a","d">>, v |-> "bufflehead"],  \* Bufflehead
    [k |-> <<"C","a","n","v","a","s","b","a","c","k">>, v |-> "canvasback"],  \* Canvasback
    [k |-> <<"G","a","d","w","a","l","l">>, v |-> "gadwall"],  \* Gadwall
    [k |-> <<"M","o","t","t","l","e","d"," ","D","u","c","k">>, v |-> "mottled-duck"],  \* Mottled Duck
    [k |-> <<"N","o","r","t","h","e","r","n"," ","S","h","o","v","e","l","e","r">>, v |-> "northern-shoveler"],  \* Northern Shoveler
    [k |-> <<"R","e","d","h","e","a","d">>, v |-> "redhead"],  \* Redhead
    [k |-> <<"R","i","n","g","-","n","e","c","k","e","d"," ","D","u","c","k">>, v |-> "ring-necked-duck"],  \* Ring-necked Duck
    [k |-> <<"R","u","d","d","y"," ","D","u","c","k">>, v |-> "ruddy-duck"],  \* Ruddy Duck
    [k |-> <<"S","c","a","u","p"," ","(","n","o","t"," ","s","p","e","c","i","a","t","e","d",")">>, v |-> "scaup"],  \* Scaup (not speciated)
    [k |-> <<"A","m","e","r","i","c","a","n"," ","B","l","a","c","k"," ","D","u","c","k">>, v |-> None],  \* American Black Duck
    [k |-> <<"A","m","e","r","i","c","a","n"," ","C","o","o","t">>, v |-> None],  \* American Coot
    [k |-> <<"B","r","a","n","t">>, v |-> None],  \* Brant
    [k |-> <<"E","i","d","e","r"," ","(","n","o","t"," ","s","p","e","c","i","a","t","e","d",")">>, v |-> None],  \* Eider (not speciated)
    [k |-> <<"E","m","p","e","r","o","r"," ","G","o","o","s","e">>, v |-> None],  \* Emperor Goose
    [k |-> <<"G","o","l","d","e","n","e","y","e"," ","(","n","o","t"," ","s","p","e","c","i","a","t","e","d",")">>, v |-> None],  \* Goldeneye (not speciated)
    [k |-> <<"H","a","r","l","e","q","u","i","n"," ","D","u","c","k">>, v |-> None],  \* Harlequin Duck
    [k |-> <<"L","o","n","g","-","t","a","i","l","e","d"," ","D","u","c","k">>, v |-> None],  \* Long-tailed Duck
    [k |-> <<"M","e","r","g","a","n","s","e","r"," ","(","n","o","t"," ","s","p","e","c","i","a","t","e","d",")">>, v |-> None],  \* Merganser (not speciated)
    [k |-> <<"M","e","x","i","c","a","n","-","l","i","k","e"," ","D","u","c","k">>, v |-> None],  \* Mexican-like Duck
    [k |-> <<"S","a","n","d","h","i","l","l"," ","C","r","a","n","e">>, v |-> None],  \* Sandhill Crane
    [k |-> <<"S","c","o","t","e","r","s">>, v |-> None],  \* Scoters
    [k |-> <<"S","w","a","n"," ","(","n","o","t"," ","d","i","f","f","e","r","e","n","t","i","a","t","e","d",")">>, v |-> None],  \* Swan (not differentiated)
    [k |-> <<"U","n","i","d","e","n","t","i","f","i","e","d"," ","D","u","c","k","s">>, v |-> None],  \* Unidentified Ducks
    [k |-> <<"W","h","i","s","t","l","i","n","g"," ","D","u","c","k">>, v |-> None],  \* Whistling Duck
    [k |-> <<"M","i","s","c","e","l","l","a","n","e","o","u","s"," ","D","u","c","k","s">>, v |-> None]  \* Miscellaneous Ducks
  >>

\* Refuge survey names -> slug, None = not tracked (species_mapping.py:100-164).
REFUGE_SURVEY_MAPPING ==
  <<
    [k |-> <<"M","a","l","l","a","r","d">>, v |-> "mallard"],  \* Mallard
    [k |-> <<"M","a","l","l","a","r","d","s">>, v |-> "mallard"],  \* Mallards
    [k |-> <<"G","r","e","e","n","-","w","i","n","g","e","d"," ","T","e","a","l">>, v |-> "green-winged-teal"],  \* Green-winged Teal
    [k |-> <<"B","l","u","e","-","w","i","n","g","e","d"," ","T","e","a","l">>, v |-> "blue-winged-teal"],  \* Blue-winged Teal
    [k |-> <<"N","o","r","t","h","e","r","n"," ","P","i","n","t","a","i","l">>, v |-> "pintail"],  \* Northern Pintail
    [k |-> <<"P","i","n","t","a","i","l">>, v |-> "pintail"],  \* Pintail
    [k |-> <<"W","o","o","d"," ","D","u","c","k">>, v |-> "wood-duck"],  \* Wood Duck
    [k |-> <<"T","e","a","l",","," ","G","r","e","e","n","-","W","i","n","g","e","d">>, v |-> "green-winged-teal"],  \* Teal, Green-Winged
    [k |-> <<"T","e","a","l",","," ","B","l","u","e","-","W","i","n","g","e","d">>, v |-> "blue-winged-teal"],  \* Teal, Blue-Winged
    [k |-> <<"N","o","r","t","h","e","r","n"," ","S","h","o","v","e","l","e","r">>, v |-> "northern-shoveler"],  \* Northern Shoveler
    [k |-> <<"M","e","r","g","a","n","s","e","r",","," ","H","o","o","d","e","d">>, v |-> None],  \* Merganser, Hooded
    [k |-> <<"M","e","r","g","a","n","s","e","r",","," ","C","o","m","m","o","n">>, v |-> None],  \* Merganser, Common
    [k |-> <<"R","u","d","d","y"," ","D","u","c","k">>, v |-> "ruddy-duck"],  \* Ruddy Duck
    [k |-> <<"B","u","f","f","l","e","h","e","a","d">>, v |-> "bufflehead"],  \* Bufflehead
    [k |-> <<"S","n","o","w","/","R","o","s","s","'","s"," ","G","o","o","s","e">>, v |-> "snow-goose"],  \* Snow/Ross's Goose
    [k |-> <<"S","n","o","w","/","R","o","s","s","'","s"," ","G","e","e","s","e">>, v |-> "snow-goose"],  \* Snow/Ross's Geese
    [k |-> <<"S","n","o","w","/","B","l","u","e","/","R","o","s","s"," ","G","e","e","s","e">>, v |-> "snow-goose"],  \* Snow/Blue/Ross Geese
    [k |-> <<"S","n","o","w","/","B","l","u","e","/","R","o","s","s">>, v |-> "snow-goose"],  \* Snow/Blue/Ross
    [k |-> <<"S","n","o","w"," ","G","o","o","s","e">>, v |-> "snow-goose"],  \* Snow Goose
    [k |-> <<"R","o","s","s","'","s"," ","G","o","o","s","e">>, v |-> "ross-goose"],  \* Ross's Goose
    [k |-> <<"R","o","s","s","u2019","s"," ","G","o","o","s","e">>, v |-> "ross-goose"],  \* Ross's Goose
    [k |-> <<"C","a","n","a","d","a"," ","G","o","o","s","e">>, v |-> "canada-goose"],  \* Canada Goose
    [k |-> <<"C","a","n","a","d","a",","," ","L","a","r","g","e">>, v |-> "canada-goose"],  \* Canada, Large
    [k |-> <<"C","a","n","a","d","a",","," ","S","m","a","l","l">>, v |-> "canada-goose"],  \* Canada, Small
    [k |-> <<"L","a","r","g","e"," ","C","a","n","a","d","a"," ","G","e","e","s","e">>, v |-> "canada-goose"],  \* Large Canada Geese
    [k |-> <<"S","m","a","l","l"," ","C","a","n","a","d","a"," ","G","e","e","s","e">>, v |-> "canada-goose"],  \* Small Canada Geese
    [k |-> <<"C","a","c","k","l","i","n","g"," ","G","o","o","s","e">>, v |-> "canada-goose"],  \* Cackling Goose
    [k |-> <<"W","h","i","t","e","-","f","r","o","n","t","e","d"," ","G","o","o","s","e">>, v |-> "white-fronted-goose"],  \* White-fronted Goose
    [k |-> <<"G","r","e","a","t","e","r"," ","W","h","i","t","e","-","f","r","o","n","t","e","d"," ","G","o","o","s","e">>, v |-> "white-fronted-goose"],  \* Greater White-fronted Goose
    [k |-> <<"G","r","e","a","t","e","r"," ","W","h","i","t","e","-","F","r","o","n","t","e","d">>, v |-> "white-fronted-goose"],  \* Greater White-Fronted
    [k |-> <<"S","p","e","c","k","l","e","b","e","l","l","y"," ","G","o","o","s","e">>, v |-> "white-fronted-goose"],  \* Specklebelly Goose
    [k |-> <<"T","o","t","a","l"," ","D","u","c","k","s">>, v |-> None],  \* Total Ducks
    [k |-> <<"T","o","t","a","l"," ","G","e","e","s","e">>, v |-> None],  \* Total Geese
    [k |-> <<"T","o","t","a","l"," ","W","a","t","e","r","f","o","w","l">>, v |-> None],  \* Total Waterfowl
    [k |-> <<"G","r","a","n","d"," ","T","o","t","a","l">>, v |-> None],  \* Grand Total
    [k |-> <<"T","O","T","A","L"," ","D","U","C","K","S">>, v |-> None],  \* TOTAL DUCKS
    [k |-> <<"T","O","T","A","L"," ","G","E","E","S","E">>, v |-> None],  \* TOTAL GEESE
    [k |-> <<"U","n","i","d","e","n","t","i","f","i","e","d">>, v |-> None],  \* Unidentified
    [k |-> <<"S","a","n","d","h","i","l","l"," ","C","r","a","n","e">>, v |-> None],  \* Sandhill Crane
    [k |-> <<"A","m","e","r","i","c","a","n"," ","W","i","g","e","o","n">>, v |-> "american-wigeon"],  \* American Wigeon
    [k |-> <<"G","a","d","w","a","l","l">>, v |-> "gadwall"],  \* Gadwall
    [k |-> <<"C","a","n","v","a","s","b","a","c","k">>, v |-> "canvasback"],  \* Canvasback
    [k |-> <<"R","e","d","h","e","a","d">>, v |-> "redhead"],  \* Redhead
    [k |-> <<"R","i","n","g","-","n","e","c","k","e","d"," ","D","u","c","k">>, v |-> "ring-necked-duck"],  \* Ring-necked Duck
    [k |-> <<"S","c","a","u","p">>, v |-> "scaup"],  \* Scaup
    [k |-> <<"T","r","u","m","p","e","t","e","r"," ","S","w","a","n">>, v |-> None],  \* Trumpeter Swan
    [k |-> <<"T","u","n","d","r","a"," ","S","w","a","n">>, v |-> None],  \* Tundra Swan
    [k |-> <<"A","m","e","r","i","c","a","n"," ","B","l","a","c","k"," ","D","u","c","k">>, v |-> None],  \* American Black Duck
    [k |-> <<"C","i","n","n","a","m","o","n"," ","T","e","a","l">>, v |-> None],  \* Cinnamon Teal
    [k |-> <<"C","o","m","m","o","n"," ","G","o","l","d","e","n","e","y","e">>, v |-> None],  \* Common Goldeneye
    [k |-> <<"H","o","o","d","e","d"," ","M","e","r","g","a","n","s","e","r">>, v |-> None],  \* Hooded Merganser
    [k |-> <<"C","o","m","m","o","n"," ","M","e","r","g","a","n","s","e","r">>, v |-> None],  \* Common Merganser
    [k |-> <<"R","e","d","-","b","r","e","a","s","t","e","d"," ","M","e","r","g","a","n","s","e","r">>, v |-> None],  \* Red-breasted Merganser
    [k |-> <<"P","i","e","d","-","b","i","l","l","e","d"," ","G","r","e","b","e">>, v |-> None],  \* Pied-billed Grebe
    [k |-> <<"H","o","r","n","e","d"," ","G","r","e","b","e">>, v |-> None],  \* Horned Grebe
    [k |-> <<"E","a","r","e","d"," ","G","r","e","b","e">>, v |-> None],  \* Eared Grebe
    [k |-> <<"A","m","e","r","i","c","a","n"," ","C","o","o","t">>, v |-> None]  \* American Coot
  >>

\* A dict literal as a function: a repeated key keeps its last value.
DictOf(table) ==
  [key \in {table[i].k : i \in DOMAIN table} |->
     table[CHOOSE i \in DOMAIN table :
             /\ table[i].k = key
             /\ \A j \in DOMAIN table : table[j].k = key => j <= i].v]

AliasDict == DictOf(SPECIES_ALIASES)

MwiDict == DictOf(MWI_COLUMN_MAPPING)

RefugeDict == DictOf(REFUGE_SURVEY_MAPPING)

\* dict.get(key)
DictGet(dict, key) == IF key \in DOMAIN dict THEN dict[key] ELSE None

\* key in dict
DictHas(dict, key) == key \in DOMAIN dict

\* The synonym table looked up with the trimmed label as written.
ResolveAliasCaseSensitive(name) ==
  IF name = <<>> THEN None
  ELSE
    LET stripped == Strip(name)
        slug == DictGet(AliasDict, stripped)
    IN IF slug # None THEN slug
       ELSE IF DictGet(MwiDict, stripped) # None THEN DictGet(MwiDict, stripped)
       ELSE IF DictHas(MwiDict, stripped) THEN None
       ELSE IF DictGet(RefugeDict, stripped) # None THEN DictGet(RefugeDict, stripped)
       ELSE IF DictHas(RefugeDict, stripped) THEN None
       ELSE None

\* The source-specific tables consulted before the synonym table.
ResolveSourceTablesFirst(name) ==
  IF name = <<>> THEN None
  ELSE
    LET stripped == Strip(name)
        normalized == Lower(stripped)
    IN IF DictHas(MwiDict, stripped) THEN DictGet(MwiDict, stripped)
       ELSE IF DictHas(RefugeDict, stripped) THEN DictGet(RefugeDict, stripped)
       ELSE DictGet(AliasDict, normalized)

\* resolve_species_slug(name): the slug, or None
resolve_species_slug(name) ==
  IF name = <<>> THEN None
  ELSE
    LET stripped == Strip(name)
        normalized == Lower(stripped)
        slug == DictGet(AliasDict, normalized)
    IN IF slug # None THEN slug
       ELSE IF DictGet(MwiDict, stripped) # None THEN DictGet(MwiDict, stripped)
       ELSE IF DictHas(MwiDict, stripped) THEN None
       ELSE IF DictGet(RefugeDict, stripped) # None THEN DictGet(RefugeDict, stripped)
       ELSE IF DictHas(RefugeDict, stripped) THEN None
       ELSE None

(***************************************************************************)
(* pipelines.py: DatabasePipeline._process_refuge_count                    *)
(***************************************************************************)
\* The registry's source names (sources.py:21-69); refuge_name of an item.
Washita == "Washita National Wildlife Refuge"
SaltPlains == "Salt Plains National Wildlife Refuge"
Agfc == "Arkansas - AGFC Aerial Survey"
LoessBluffs == "Loess Bluffs National Wildlife Refuge"
Ldwf == "Louisiana - LDWF Aerial Survey"

\* Rows of the locations table that _open_db / open_spider load into
\* location_map (name -> id).  The table is external data: either every source
\* of the registry has a location row, or the statewide aerial surveys have none.
LocationMaps ==
  { [n \in {Washita, SaltPlains, Agfc, LoessBluffs, Ldwf} |-> "loc:" \o n],
    [n \in {Washita, SaltPlains, LoessBluffs} |-> "loc:" \o n] }

\* Slugs that the tables can return but the species table of the database
\* does not hold (species_map.get(slug) is None for them).
MissingSlugs == {"ruddy-duck"}

\* self.species_map.get(slug): the species id, or None
SpeciesMapGet(slug) == IF slug \in MissingSlugs THEN None ELSE "sp:" \o slug

\* dict.get on a TLA+ function
MapGet(map, key) == IF key \in DOMAIN map THEN map[key] ELSE None

\* The conflict target of the INSERT (pipelines.py:217).
RowKey(r) == <<r.location_id, r.species_id, r.survey_date, r.survey_type>>

BagAdd(bag, r) ==
  IF r \in DOMAIN bag THEN [bag EXCEPT ![r] = @ + 1]
  ELSE [x \in DOMAIN bag \cup {r} |-> IF x = r THEN 1 ELSE bag[x]]

BagRemove(bag, r) ==
  IF bag[r] > 1 THEN [bag EXCEPT ![r] = @ - 1]
  ELSE [x \in DOMAIN bag \ {r} |-> bag[x]]

\* A plain INSERT, without the ON CONFLICT clause.
UpsertBlindInsert(table, r) == BagAdd(table, r)

\* ON CONFLICT ... DO NOTHING: the existing row is kept as it is.
UpsertDoNothing(table, r) ==
  IF \E x \in DOMAIN table : RowKey(x) = RowKey(r) THEN table ELSE BagAdd(table, r)

\* INSERT ... ON CONFLICT (location_id, species_id, survey_date, survey_type)
\* DO UPDATE SET count, observers, source_url = EXCLUDED.* (pipelines.py:212-234)
Upsert(table, r) ==
  LET conflicts == {x \in DOMAIN table : RowKey(x) = RowKey(r)}
  IN IF conflicts = {} THEN BagAdd(table, r)
     ELSE LET old == CHOOSE x \in conflicts : TRUE
              new == [old EXCEPT !.count = r.count,
                                 !.observers = r.observers,
                                 !.source_url = r.source_url]
          IN BagAdd(BagRemove(table, old), new)

\* The row the k-th (species_name, count) pair of the item would write, or
\* <<>> when the loop body reaches `continue` (pipelines.py:201-209).
RowOf(item, location_id, k) ==
  LET pair == item.species_counts[k]
      slug == resolve_species_slug(pair.name)
  IN IF slug = None THEN <<>>
     ELSE IF SpeciesMapGet(slug) = None THEN <<>>
     ELSE << [location_id |-> location_id,
              species_id |-> SpeciesMapGet(slug),
              survey_date |-> item.survey_date,
              count |-> pair.count,
              survey_type |-> item.survey_type,
              source_url |-> item.source_url,
              observers |-> item.observers,
              raw_species_name |-> pair.name] >>

\* The connection's view of the table after the first k iterations of the
\* loop over species_counts.items() (pipelines.py:201-235).
RECURSIVE UpsertFirst(_, _, _, _)
UpsertFirst(table, item, location_id, k) ==
  IF k = 0 THEN table
  ELSE LET before == UpsertFirst(table, item, location_id, k - 1)
           row == RowOf(item, location_id, k)
       IN IF row = <<>> THEN before ELSE Upsert(before, row[1])

\* Outcome of one call.  fail_at = 0: no statement raises.  fail_at = k in
\* 1..n: the execute of the k-th pair raises (if that pair executes one);
\* fail_at = n + 1: commit raises.  rollback_raises: conn.rollback() in the
\* except block raises too, and the exception leaves the method.
ProcessRefugeCount(table, locmap, item, fail_at, rollback_raises) ==
  LET location_id == MapGet(locmap, item.refuge_name)
      n == Len(item.species_counts)
      raises == \/ fail_at = n + 1
                \/ fail_at \in 1..n /\ RowOf(item, location_id, fail_at) # <<>>
  IN IF location_id = None
     THEN [table |-> table, status |-> "no_location"]
     ELSE IF raises
     THEN [table |-> table,
           status |-> IF rollback_raises THEN "raised" ELSE "rolled_back"]
     ELSE [table |-> UpsertFirst(table, item, location_id, n),
           status |-> "committed"]

(***************************************************************************)
(* Inputs of the store specification                                       *)
(***************************************************************************)
Mallard == <<"M","a","l","l","a","r","d">>
Mallards == <<"M","a","l","l","a","r","d","s">>
SnowGoose == <<"S","n","o","w"," ","G","o","o","s","e">>
Brant == <<"B","r","a","n","t">>
RuddyDuck == <<"R","u","d","d","y"," ","D","u","c","k">>

\* Largest count an item of the store specification carries.
MaxCount == 2

\* Names whose pair can carry any count, and names no row is written for
\* (Brant resolves to None, the species table has no ruddy-duck).
StorePairs ==
  [name : {Mallard, Mallards}, count : 1..MaxCount]
    \cup [name : {Brant, RuddyDuck}, count : {1}]

\* species_counts of an item: a dict in insertion order, empty, of one name,
\* or of one name followed by Mallard.
StoreSpeciesCounts ==
  {<<>>} \cup {<<p>> : p \in StorePairs}
         \cup {<<pq[1], pq[2]>> : pq \in {x \in StorePairs \X StorePairs :
                                            x[1].name # Mallard /\ x[2].name = Mallard}}

StoreItems ==
  [refuge_name : {Washita},
   survey_date : {<<2026, 1, 13>>},
   species_counts : StoreSpeciesCounts,
   observers : {None, "J. Smith"},
   source_url : {"https://www.fws.gov/refuge/washita/latest-waterfowl-survey"},
   survey_type : {"weekly"}]
  \cup
  [refuge_name : {Ldwf},
   survey_date : {<<2026, 1, 13>>},
   species_counts : {<<[name |-> Mallard, count |-> 1]>>},
   observers : {None},
   source_url : {"https://www.wlf.louisiana.gov/page/aerial-waterfowl-surveys"},
   survey_type : {"aerial_monthly"}]

NoItem ==
  [refuge_name |-> None, survey_date |-> <<>>, species_counts |-> <<>>,
   observers |-> None, source_url |-> None, survey_type |-> None]

EmptyTable == [r \in {} |-> 0]

\* The location map without the statewide aerial surveys.
RefugeLocations == CHOOSE m \in LocationMaps : Ldwf \notin DOMAIN m

IdleStore ==
  /\ refuge_counts = EmptyTable
  /\ last_store = [item |-> NoItem, status |-> "none",
                   updated |-> FALSE, overwrote |-> FALSE]

IdleRun ==
  /\ pc = "idle" /\ dry_run = FALSE /\ conn = "unset"
  /\ location_map = RefugeLocations
  /\ sources = <<>> /\ src_idx = 0 /\ items = <<>> /\ all_items = <<>>
  /\ attempted = <<>> /\ handled = <<>> /\ store_calls = <<>>

IdleProbe ==
  /\ pdf_urls = <<>> /\ url_idx = 0 /\ probe_pc = "idle"
  /\ net_log = <<>> /\ pdf_items = <<>>

IdleMain == main_pc = "idle" /\ spider = "" /\ exit_code = <<>>

IdleExtract ==
  /\ xr_pc = "idle" /\ xr_dry_run = FALSE /\ xr_states = <<>> /\ xr_idx = 0
  /\ xr_conn = "closed" /\ seasons = <<>> /\ xr_log = <<>>

IdleIngest ==
  /\ mw_pc = "idle" /\ mw_dry_run = FALSE /\ mw_read = 0 /\ total_rows = 0
  /\ inserted = 0 /\ mwi_counts = {} /\ mw_txn = {} /\ mw_executed = {}

IdleCrawl ==
  /\ cr_pc = "idle" /\ cr_dry_run = FALSE /\ site = <<>> /\ visited = {}
  /\ queue = <<>> /\ stored = 0 /\ requests = <<>>

IdleScripts == IdleExtract /\ IdleIngest /\ IdleCrawl

IdleParse ==
  /\ doc = [fmt |-> "none"] /\ today = <<>> /\ parsed = "no"
  /\ results = <<>> /\ reparsed = <<>>

IdleResolve == label = <<>> /\ resolved = <<>>

\* The rows a call writes when nothing raises: one per pair that reaches execute.
WrittenRows(locmap, item) ==
  LET location_id == MapGet(locmap, item.refuge_name)
  IN IF location_id = None THEN {}
     ELSE {RowOf(item, location_id, k)[1] :
             k \in {i \in 1..Len(item.species_counts) :
                      RowOf(item, location_id, i) # <<>>}}

\* Whether a committed call met a row that existed before the call.
Updated(before, locmap, item) ==
  \E old \in DOMAIN before : \E new \in WrittenRows(locmap, item) :
    RowKey(old) = RowKey(new)

\* Whether a committed call replaced the count of a row that existed before.
Overwrote(before, after) ==
  \E old \in DOMAIN before : \E new \in DOMAIN after :
    RowKey(old) = RowKey(new) /\ old.count # new.count

\* One call of _process_refuge_count(item, spider) on the open connection.
StoreItem(item, fail_at, rollback_raises) ==
  LET out == ProcessRefugeCount(refuge_counts, location_map, item, fail_at, rollback_raises)
  IN /\ refuge_counts' = out.table
     /\ last_store' = [item |-> item, status |-> out.status,
                       updated |-> /\ out.status = "committed"
                                   /\ Updated(refuge_counts, location_map, item),
                       overwrote |-> Overwrote(refuge_counts, out.table)]

StoreCall ==
  \E item \in StoreItems :
    \E fail_at \in 0..(Len(item.species_counts) + 1) :
      \E rollback_raises \in {b \in BOOLEAN : fail_at # 0 \/ ~b} :
        /\ StoreItem(item, fail_at, rollback_raises)
    /\ UNCHANGED <<scriptVars, runVars, parseVars, resolveVars, probeVars, mainVars>>


(***************************************************************************)
(* Claims about persistence                                                *)
(***************************************************************************)
\* C1: after any sequence of _process_refuge_count calls, refuge_counts holds
\* at most one row for each (location_id, species_id, survey_date,
\* survey_type): no row has a second copy and no two rows share a key.
C1_OneRowPerKey ==
  \A r \in DOMAIN refuge_counts :
    /\ refuge_counts[r] = 1
    /\ \A q \in DOMAIN refuge_counts : RowKey(q) = RowKey(r) => q = r

\* C1 witness: a committed call has written a key that already had a row.
C1_Reingested == last_store.status = "committed" /\ last_store.updated

\* The last pair of the item that writes the same key as its k-th pair.
IsLastOfKey(locmap, item, k) ==
  LET location_id == MapGet(locmap, item.refuge_name)
  IN \A j \in (k + 1)..Len(item.species_counts) :
       \/ RowOf(item, location_id, j) = <<>>
       \/ RowKey(RowOf(item, location_id, j)[1]) # RowKey(RowOf(item, location_id, k)[1])

\* C2: after a committed call, every key the item wrote holds one row whose
\* count, observers and source_url are those of the item stored last (the
\* count of the item's last pair for that key).
C2_LastWriteWins ==
  last_store.status = "committed" =>
    LET item == last_store.item
        location_id == MapGet(location_map, item.refuge_name)
    IN \A k \in 1..Len(item.species_counts) :
         (RowOf(item, location_id, k) # <<>> /\ IsLastOfKey(location_map, item, k)) =>
           \E r \in DOMAIN refuge_counts :
             /\ RowKey(r) = RowKey(RowOf(item, location_id, k)[1])
             /\ r.count = item.species_counts[k].count
             /\ r.observers = item.observers
             /\ r.source_url = item.source_url

\* C2 witness: the committed call changed the count of an existing row.
C2_Overwrote == last_store.status = "committed" /\ last_store.overwrote

InitStore ==
  IdleStore /\ IdleRun /\ IdleParse /\ IdleResolve /\ IdleProbe /\ IdleMain /\ IdleScripts

NextStore == StoreCall

SpecStore == InitStore /\ [][NextStore]_vars

(***************************************************************************)
(* sources.py and scrapers/refuge_counts.py: RefugeCountsScraper.run       *)
(***************************************************************************)
\* The registry, in its order (sources.py:18-70).  parser_type is the
\* survey_type the source's parser puts in its ParseResult.
WATERFOWL_SOURCES ==
  << [name |-> Washita, state_code |-> "OK", source_type |-> "html",
      survey_type |-> "weekly", parser_type |-> "weekly",
      url |-> "https://www.fws.gov/refuge/washita/latest-waterfowl-survey"],
     [name |-> SaltPlains, state_code |-> "OK", source_type |-> "html",
      survey_type |-> "weekly", parser_type |-> "weekly",
      url |-> "https://www.fws.gov/story/weekly-waterfowl-survey"],
     [name |-> Agfc, state_code |-> "AR", source_type |-> "pdf_index",
      survey_type |-> "aerial_biweekly", parser_type |-> "aerial_biweekly",
      url |-> "https://www.agfc.com/education/waterfowl-surveys-and-reports/"],
     [name |-> LoessBluffs, state_code |-> "MO", source_type |-> "pdf_url_list",
      survey_type |-> "weekly", parser_type |-> "weekly",
      url |-> "https://www.fws.gov/library/collections/loess-bluffs-2025-waterfowl-and-bald-eagle-surveys"],
     [name |-> Ldwf, state_code |-> "LA", source_type |-> "pdf_url_list",
      survey_type |-> "aerial_monthly", parser_type |-> "aerial_monthly",
      url |-> "https://www.wlf.louisiana.gov/page/aerial-waterfowl-surveys"] >>

\* str.lower() on the names the --source filter is compared with.
LowerName ==
  [n \in {Washita, "washita national wildlife refuge", "WASHITA NATIONAL WILDLIFE REFUGE",
          SaltPlains, Agfc, LoessBluffs, "loess bluffs national wildlife refuge",
          Ldwf, "Bosque del Apache"} |->
     CASE n \in {Washita, "washita national wildlife refuge",
                 "WASHITA NATIONAL WILDLIFE REFUGE"} -> "washita national wildlife refuge"
       [] n = SaltPlains -> "salt plains national wildlife refuge"
       [] n = Agfc -> "arkansas - agfc aerial survey"
       [] n \in {LoessBluffs, "loess bluffs national wildlife refuge"} ->
            "loess bluffs national wildlife refuge"
       [] n = Ldwf -> "louisiana - ldwf aerial survey"
       [] n = "Bosque del Apache" -> "bosque del apache"]

\* Values of --source: absent, or a name in some letter case.
FilterNames ==
  {None, "WASHITA NATIONAL WILDLIFE REFUGE",
   "loess bluffs national wildlife refuge", "Bosque del Apache"}

\* Most documents one pdf_index / pdf_url_list source yields in one run.
MaxDocs == 1

\* sources after the filter (refuge_counts.py:282-284)
FilteredSources(filter_name) ==
  IF filter_name = None THEN WATERFOWL_SOURCES
  ELSE LET Match(src) == LowerName[src.name] = LowerName[filter_name]
       IN SelectSeq(WATERFOWL_SOURCES, Match)

\* _make_item (refuge_counts.py:140-158); scraped_at is left out.
MakeItem(source, result, source_url) ==
  [refuge_name |-> source.name,
   survey_date |-> result.survey_date,
   species_counts |-> result.species_counts,
   observers |-> result.observers,
   source_url |-> source_url,
   survey_type |-> IF result.survey_type # "" THEN result.survey_type
                   ELSE source.survey_type]

\* The ParseResult a source's parser returns for a document it can parse.
RunResult(source) ==
  [survey_date |-> <<2026, 1, 13>>,
   species_counts |-> <<[name |-> Mallard, count |-> 1]>>,
   observers |-> None,
   survey_type |-> source.parser_type]

\* Whether the handler of this source type lets an exception escape: the
\* pdf_url_list handler wraps each candidate in its own try/except
\* (refuge_counts.py:242-267), the others do not guard their fetch.
HandlerCanRaise(source_type) == source_type \in {"html", "html_multi", "pdf_index"}

\* The item lists a handler can return (refuge_counts.py:162-270): none when
\* the response is bad or the parser fails, one item for an html page, up to
\* MaxDocs items for the PDF source types.
HandlerItems(source) ==
  LET item == MakeItem(source, RunResult(source), source.url)
      most == IF source.source_type = "html" THEN 1 ELSE MaxDocs
  IN {[i \in 1..n |-> item] : n \in 0..most}

\* The exception leaves run(): no except clause around the handler.
AfterSourceErrorAbort(idx) == [pc |-> "raised", src_idx |-> idx]

\* The except clause of the loop (refuge_counts.py:314-315): the error is
\* logged and the loop goes on with the next source.
AfterSourceError(idx) == [pc |-> "loop", src_idx |-> idx + 1]

\* StartRun: a fresh RefugeCountsScraper enters run() (refuge_counts.py:279-289).
\* db is what _open_db meets: "no_url" (DATABASE_URL unset), "ok",
\* "connect_raises" (psycopg2.connect raises), "query_raises" (a SELECT raises).
StartRun(dry, filter_name, db) ==
  /\ pc \in {"idle", "returned", "raised"}
  /\ dry_run' = dry
  /\ location_map' = IF ~dry /\ db = "ok" THEN RefugeLocations ELSE <<>>
  /\ conn' = IF ~dry /\ db \in {"ok", "query_raises"} THEN "open" ELSE "unset"
  /\ attempted' = <<>> /\ handled' = <<>> /\ store_calls' = <<>>
  /\ all_items' = <<>> /\ items' = <<>>
  /\ IF ~dry /\ db \in {"connect_raises", "query_raises"}
     THEN pc' = "raised" /\ sources' = <<>> /\ src_idx' = 0
     ELSE /\ sources' = FilteredSources(filter_name)
          /\ IF filter_name # None /\ FilteredSources(filter_name) = <<>>
             THEN pc' = "returned" /\ src_idx' = 0
             ELSE pc' = "loop" /\ src_idx' = 1
  /\ UNCHANGED <<scriptVars, storeVars, parseVars, resolveVars, probeVars, mainVars>>

\* One iteration of the loop up to all_items.extend (refuge_counts.py:291-308).
HandleSource(raises, found) ==
  /\ pc = "loop" /\ src_idx <= Len(sources)
  /\ LET source == sources[src_idx]
     IN /\ attempted' = Append(attempted, source.name)
        /\ IF raises
           THEN /\ pc' = AfterSourceError(src_idx).pc
                /\ src_idx' = AfterSourceError(src_idx).src_idx
                /\ handled' = Append(handled, [outcome |-> "raised", items |-> <<>>,
                                               statuses |-> <<>>])
                /\ UNCHANGED <<all_items, items>>
           ELSE /\ all_items' = all_items \o found
                /\ handled' = Append(handled, [outcome |-> "ok", items |-> found,
                                               statuses |-> <<>>])
                /\ IF dry_run \/ found = <<>>
                   THEN pc' = "loop" /\ src_idx' = src_idx + 1 /\ items' = <<>>
                   ELSE pc' = "store" /\ src_idx' = src_idx /\ items' = found
  /\ UNCHANGED <<scriptVars, storeVars, dry_run, conn, location_map, sources, store_calls,
                 parseVars, resolveVars, probeVars, mainVars>>

Handle ==
  \E raises \in BOOLEAN :
    \E found \in IF pc = "loop" /\ src_idx <= Len(sources)
                 THEN HandlerItems(sources[src_idx]) ELSE {} :
      /\ raises => HandlerCanRaise(sources[src_idx].source_type) /\ found = <<>>
      /\ HandleSource(raises, found)

\* _store_item(item) for the next item of the source (refuge_counts.py:310-312
\* and 88-103).
StoreNext(fail_at, rollback_raises) ==
  /\ pc = "store" /\ items # <<>>
  /\ LET item == Head(items)
         out == IF conn = "unset"
                THEN [table |-> refuge_counts, status |-> "no_conn"]
                ELSE ProcessRefugeCount(refuge_counts, location_map,
                                        item, fail_at, rollback_raises)
         n == Len(handled)
     IN /\ store_calls' = Append(store_calls, item)
        /\ refuge_counts' = out.table
        /\ UNCHANGED last_store
        /\ IF out.status = "raised"
           THEN /\ pc' = AfterSourceError(src_idx).pc
                /\ src_idx' = AfterSourceError(src_idx).src_idx
                /\ items' = <<>>
                /\ handled' = [handled EXCEPT ![n].outcome = "store_raised",
                                              ![n].statuses = Append(@, out.status)]
           ELSE /\ items' = Tail(items)
                /\ handled' = [handled EXCEPT ![n].statuses = Append(@, out.status)]
                /\ IF Tail(items) = <<>>
                   THEN pc' = "loop" /\ src_idx' = src_idx + 1
                   ELSE pc' = "store" /\ src_idx' = src_idx
  /\ UNCHANGED <<scriptVars, dry_run, conn, location_map, sources, all_items, attempted,
                 parseVars, resolveVars, probeVars, mainVars>>

Store ==
  \E fail_at \in 0..2 : \E rollback_raises \in {b \in BOOLEAN : fail_at # 0 \/ ~b} :
    StoreNext(fail_at, rollback_raises)

\* After the loop: close the connection and return all_items
\* (refuge_counts.py:317-321).
FinishRun ==
  /\ pc = "loop" /\ src_idx > Len(sources)
  /\ conn' = IF conn = "open" THEN "closed" ELSE conn
  /\ pc' = "returned"
  /\ UNCHANGED <<scriptVars, storeVars, dry_run, location_map, sources, src_idx, items,
                 all_items, attempted, handled, store_calls, parseVars,
                 resolveVars, probeVars, mainVars>>

Start ==
  \E dry \in BOOLEAN : \E filter_name \in FilterNames :
    \E db \in {"no_url", "ok", "connect_raises", "query_raises"} :
      StartRun(dry, filter_name, db)


(***************************************************************************)
(* Claims about RefugeCountsScraper.run                                    *)
(***************************************************************************)
\* The items of the first n handled sources, in order.
RECURSIVE ItemsOfHandled(_)
ItemsOfHandled(n) ==
  IF n = 0 THEN <<>> ELSE ItemsOfHandled(n - 1) \o handled[n].items

\* C3: a failure while handling one source never aborts the run.  The
\* sources attempted so far are the first selected sources, each once and in
\* registry order; run() never ends by an exception once the loop has begun;
\* when it returns, every selected source was attempted, the returned list
\* holds the items of every source in order, and each item of a source that
\* did not fail was passed to _store_item, its committed rows being in the
\* table.
C3_FailureDoesNotAbort ==
  /\ Len(attempted) <= Len(sources)
  /\ Len(handled) = Len(attempted)
  /\ \A k \in 1..Len(attempted) : attempted[k] = sources[k].name
  /\ pc = "raised" => attempted = <<>>
  /\ pc = "returned" =>
       /\ Len(attempted) = Len(sources)
       /\ all_items = ItemsOfHandled(Len(handled))
       /\ \A k \in 1..Len(handled) :
            handled[k].outcome = "ok" /\ ~dry_run =>
              /\ Len(handled[k].statuses) = Len(handled[k].items)
              /\ \A i \in 1..Len(handled[k].items) :
                   handled[k].statuses[i] = "committed" =>
                     \A w \in WrittenRows(location_map, handled[k].items[i]) :
                       \E r \in DOMAIN refuge_counts :
                         RowKey(r) = RowKey(w) /\ r.count = w.count

\* C3 witness: run() has returned although one source raised, and a later
\* source's item was committed.
C3_LaterSourceStored ==
  /\ pc = "returned"
  /\ \E j \in 1..Len(handled) : \E k \in 1..Len(handled) :
       /\ j < k
       /\ handled[j].outcome = "raised"
       /\ handled[k].outcome = "ok"
       /\ \E i \in 1..Len(handled[k].statuses) : handled[k].statuses[i] = "committed"

Init ==
  IdleStore /\ IdleRun /\ IdleParse /\ IdleResolve /\ IdleProbe /\ IdleMain /\ IdleScripts

Next == Start \/ Handle \/ Store \/ FinishRun

Spec == Init /\ [][Next]_vars

(***************************************************************************)
(* resolve_species_slug applied to one label                               *)
(***************************************************************************)
DictKeys(table) == {table[i].k : i \in DOMAIN table}

TableLabels ==
  DictKeys(SPECIES_ALIASES) \cup DictKeys(MWI_COLUMN_MAPPING)
    \cup DictKeys(REFUGE_SURVEY_MAPPING)

Padded(s) == <<" ">> \o s \o <<" ", " ">>

\* Every key of the three tables as written, in lower case, in upper case and
\* with surrounding blanks; the empty and the blank label; two labels that no
\* table holds.
ResolveLabels ==
  UNION {{k, Lower(k), Upper(k), Padded(k), Padded(Upper(k))} : k \in TableLabels}
    \cup {<<>>, <<" ">>, <<"S","m","e","w">>, <<"T","o","t","a","l">>}

InitResolve ==
  /\ IdleStore /\ IdleRun /\ IdleParse /\ IdleProbe /\ IdleMain /\ IdleScripts
  /\ label \in ResolveLabels
  /\ resolved = <<>>

\* slug = resolve_species_slug(label)
Resolve ==
  /\ resolved = <<>>
  /\ resolved' = <<resolve_species_slug(label)>>
  /\ UNCHANGED <<scriptVars, label, storeVars, runVars, parseVars, probeVars, mainVars>>

NextResolve == Resolve

SpecResolve == InitResolve /\ [][NextResolve]_vars

\* C9 as amended: the result depends only on the trimmed label, and for a
\* label whose trimmed lower-case form is a key of SPECIES_ALIASES only on
\* that form: every such variant of the label resolves to the same slug.
C9_TrimmedAndAliasCase ==
  resolved # <<>> =>
    \A other \in ResolveLabels :
      /\ Strip(other) = Strip(label) => resolve_species_slug(other) = resolved[1]
      /\ ( /\ Lower(Strip(other)) = Lower(Strip(label))
           /\ DictHas(AliasDict, Lower(Strip(label))) )
         => resolve_species_slug(other) = resolved[1]

\* C9 witness: a label was resolved to a slug through SPECIES_ALIASES although
\* it is not written as the table's key is.
C9_CaseVariantResolved ==
  /\ resolved # <<>> /\ resolved[1] # None
  /\ DictHas(AliasDict, Lower(Strip(label)))
  /\ label # Lower(Strip(label))
  /\ ~DictHas(MwiDict, Strip(label)) /\ ~DictHas(RefugeDict, Strip(label))

\* C9 as claimed: any two labels that are equal after trimming and
\* lower-casing resolve to the same result.
C9_NormalizedOnly ==
  resolved # <<>> =>
    \A other \in ResolveLabels :
      Lower(Strip(other)) = Lower(Strip(label)) =>
        resolve_species_slug(other) = resolved[1]

\* C10: a label that MWI_COLUMN_MAPPING or REFUGE_SURVEY_MAPPING maps to None
\* resolves to None.
C10_UntrackedStaysUntracked ==
  ( /\ resolved # <<>>
    /\ \/ DictHas(MwiDict, label) /\ MwiDict[label] = None
       \/ DictHas(RefugeDict, label) /\ RefugeDict[label] = None )
  => resolved[1] = None

(***************************************************************************)
(* parsers/base.py: numbers, dates, count cells                            *)
(***************************************************************************)
DigitChars == <<"0","1","2","3","4","5","6","7","8","9">>

IsDigit(c) == \E i \in DOMAIN DigitChars : DigitChars[i] = c

DigitVal(c) == (CHOOSE i \in DOMAIN DigitChars : DigitChars[i] = c) - 1

IsLetter(c) == IsUpper(c) \/ IsLower(c)

AllDigits(s) == s # <<>> /\ \A i \in DOMAIN s : IsDigit(s[i])

\* int(s) of a string of decimal digits
RECURSIVE IntOfDigits(_)
IntOfDigits(s) ==
  IF s = <<>> THEN 0
  ELSE 10 * IntOfDigits(SubSeq(s, 1, Len(s) - 1)) + DigitVal(s[Len(s)])

\* str(n) of a natural number
RECURSIVE StrOfNat(_)
StrOfNat(n) ==
  IF n < 10 THEN <<DigitChars[n + 1]>>
  ELSE StrOfNat(n \div 10) \o <<DigitChars[(n % 10) + 1]>>

\* "%0<width>d" % n
ZeroPad(n, width) ==
  LET s == StrOfNat(n) IN [i \in 1..(width - Len(s)) |-> "0"] \o s

\* s.replace(c, "")
Remove(s, c) == SelectSeq(s, LAMBDA x : x # c)

\* s.split(c): the pieces of s between the occurrences of c
RECURSIVE SplitOn(_, _)
SplitOn(s, c) ==
  IF \A i \in DOMAIN s : s[i] # c THEN <<s>>
  ELSE LET i == CHOOSE j \in DOMAIN s : s[j] = c /\ \A k \in 1..(j - 1) : s[k] # c
       IN <<SubSeq(s, 1, i - 1)>> \o SplitOn(SubSeq(s, i + 1, Len(s)), c)

\* sep.join(parts)
RECURSIVE Join(_, _)
Join(parts, sep) ==
  IF parts = <<>> THEN <<>>
  ELSE IF Len(parts) = 1 THEN parts[1]
  ELSE parts[1] \o sep \o Join(Tail(parts), sep)

\* The words of a text: its maximal runs of non-blank characters.
Words(s) == SelectSeq(SplitOn(s, " "), LAMBDA w : w # <<>>)

IsLeap(y) == (y % 4 = 0 /\ y % 100 # 0) \/ y % 400 = 0

DaysInMonth(y, m) ==
  IF m = 2 THEN (IF IsLeap(y) THEN 29 ELSE 28)
  ELSE IF m \in {4, 6, 9, 11} THEN 30 ELSE 31

\* datetime(y, m, d) does not raise ValueError
ValidDate(y, m, d) ==
  /\ y \in 1..9999 /\ m \in 1..12
  /\ d \in 1..DaysInMonth(y, m)

\* dt.strftime("%Y-%m-%d"), for years of four digits
strftime(y, m, d) ==
  ZeroPad(y, 4) \o <<"-">> \o ZeroPad(m, 2) \o <<"-">> \o ZeroPad(d, 2)

\* parse_count_value(text): <<n>>, or <<>> for None.  int() takes an optional
\* sign followed by decimal digits.
parse_count_value(text) ==
  LET cleaned == Remove(Strip(text), ",")
      signed == cleaned # <<>> /\ cleaned[1] \in {"-", "+"}
      digits == IF signed THEN Tail(cleaned) ELSE cleaned
  IN IF cleaned = <<>> THEN <<>>
     ELSE IF ~AllDigits(digits) THEN <<>>
     ELSE IF cleaned[1] = "-" THEN << 0 - IntOfDigits(digits) >>
     ELSE << IntOfDigits(digits) >>

\* d[name] = count on a dict kept as the sequence of its items in insertion
\* order: an existing key keeps its place and takes the new value.
DictSet(d, name, count) ==
  IF \E i \in DOMAIN d : d[i].name = name
  THEN [i \in DOMAIN d |-> IF d[i].name = name
                           THEN [name |-> name, count |-> count] ELSE d[i]]
  ELSE Append(d, [name |-> name, count |-> count])

(***************************************************************************)
(* parsers/base.py: survey date, table rows, free-text fallback            *)
(*                                                                         *)
(* A page is modelled by its date expressions, in text order, followed by  *)
(* its table rows.  A date expression is DATE: m/d/yyyy ("labeled"),       *)
(* Month d, yyyy ("prose") or m/d/yyyy ("slash"); m, d and y are the       *)
(* numbers its digit groups hold.  A row is the sequence of its cell       *)
(* texts.  The words of the modelled pages hold letters and apostrophes    *)
(* only, and text nodes are joined by single blanks as page_text is.       *)
(***************************************************************************)
MonthNames ==
  << <<"J","a","n","u","a","r","y">>, <<"F","e","b","r","u","a","r","y">>, <<"M","a","r","c","h">>, <<"A","p","r","i","l">>, <<"M","a","y">>, <<"J","u","n","e">>, <<"J","u","l","y">>,
     <<"A","u","g","u","s","t">>, <<"S","e","p","t","e","m","b","e","r">>, <<"O","c","t","o","b","e","r">>, <<"N","o","v","e","m","b","e","r">>, <<"D","e","c","e","m","b","e","r">> >>

DATE_PATTERNS == <<"labeled", "prose", "slash", "slash_at_start">>

\* Whether DATE_PATTERNS[p] matches at the i-th date expression of the text.
PatternMatchesAt(p, dates, i) ==
  CASE DATE_PATTERNS[p] = "labeled" -> dates[i].kind = "labeled"
    [] DATE_PATTERNS[p] = "prose" -> dates[i].kind = "prose"
    [] DATE_PATTERNS[p] = "slash" -> dates[i].kind \in {"labeled", "slash"}
    [] DATE_PATTERNS[p] = "slash_at_start" -> i = 1 /\ dates[i].kind = "slash"

\* pattern.search(text): the first date expression the pattern matches, or 0
PatternSearch(p, dates) ==
  IF \E i \in DOMAIN dates : PatternMatchesAt(p, dates, i)
  THEN CHOOSE i \in DOMAIN dates :
         /\ PatternMatchesAt(p, dates, i)
         /\ \A j \in 1..(i - 1) : ~PatternMatchesAt(p, dates, j)
  ELSE 0

\* The patterns tried in the order of the text instead of the order of the
\* list: the date of the first expression of the text that is a calendar date.
TryDatePatternsInTextOrder(p, dates) ==
  LET ok == {i \in DOMAIN dates : ValidDate(dates[i].y, dates[i].m, dates[i].d)}
  IN IF ok = {} THEN <<>>
     ELSE LET i == CHOOSE k \in ok : \A j \in ok : k <= j
          IN strftime(dates[i].y, dates[i].m, dates[i].d)

RECURSIVE TryDatePatterns(_, _)
TryDatePatterns(p, dates) ==
  IF p > Len(DATE_PATTERNS) THEN <<>>
  ELSE LET i == PatternSearch(p, dates)
       IN IF i # 0 /\ ValidDate(dates[i].y, dates[i].m, dates[i].d)
          THEN strftime(dates[i].y, dates[i].m, dates[i].d)
          ELSE TryDatePatterns(p + 1, dates)

\* parse_survey_date(text): "YYYY-MM-DD", or <<>> for None
parse_survey_date(dates) == TryDatePatterns(1, dates)

SlashText(e) ==
  StrOfNat(e.m) \o <<"/">> \o StrOfNat(e.d) \o <<"/">> \o ZeroPad(e.y, 4)

\* The words a date expression puts into the page text.
DateWords(e) ==
  CASE e.kind = "labeled" -> << <<"D","A","T","E">>, <<":">>, SlashText(e) >>
    [] e.kind = "prose" ->
         << MonthNames[e.m], StrOfNat(e.d) \o <<",">>, ZeroPad(e.y, 4) >>
    [] e.kind = "slash" -> << SlashText(e) >>

RECURSIVE Flatten(_)
Flatten(seqs) == IF seqs = <<>> THEN <<>> ELSE Head(seqs) \o Flatten(Tail(seqs))

\* The words of " ".join(response.css("body *::text").getall())
PageText(page) ==
  Flatten([i \in DOMAIN page.dates |-> DateWords(page.dates[i])])
    \o Flatten([i \in DOMAIN page.rows |->
                  Flatten([j \in DOMAIN page.rows[i] |-> Words(page.rows[i][j])])])

\* cells = [c.strip() for c in cells if c.strip()]
StrippedCells(row) ==
  LET kept == SelectSeq(row, LAMBDA c : Strip(c) # <<>>)
  IN [i \in DOMAIN kept |-> Strip(kept[i])]

RECURSIVE TableCounts(_, _, _)
TableCounts(rows, k, counts) ==
  IF k > Len(rows) THEN counts
  ELSE
    LET cells == StrippedCells(rows[k])
        name == cells[1]
        count == parse_count_value(cells[Len(cells)])
    IN IF Len(cells) < 2 THEN TableCounts(rows, k + 1, counts)
       ELSE IF Lower(name) \in {<<"s","p","e","c","i","e","s">>, <<"c","o","u","n","t">>}
            THEN TableCounts(rows, k + 1, counts)
       ELSE IF Contains(Lower(name), <<"t","o","t","a","l">>) \/ Contains(Lower(name), <<"g","r","a","n","d">>)
            THEN TableCounts(rows, k + 1, counts)
       ELSE IF count # <<>> /\ count[1] > 0
            THEN TableCounts(rows, k + 1, DictSet(counts, name, count[1]))
       ELSE TableCounts(rows, k + 1, counts)

\* extract_table_counts(response)
extract_table_counts(rows) == TableCounts(rows, 1, <<>>)

skip_words ==
  { <<"t","o","t","a","l">>, <<"g","r","a","n","d">>, <<"d","a","t","e">>, <<"o","b","s","e","r","v","e","r">>, <<"t","e","m","p","e","r","a","t","u","r","e">>, <<"w","i","n","d">>,
    <<"w","e","a","t","h","e","r">>, <<"l","a","k","e">>, <<"l","e","v","e","l">>, <<"c","o","n","d","i","t","i","o","n","s">>, <<"p","a","g","e">>, <<"s","e","c","t","i","o","n">>,
    <<"c","h","a","p","t","e","r">> }

\* [A-Z][a-z]+ : a word that can open a name
IsNameHead(w) ==
  /\ Len(w) >= 2 /\ IsUpper(w[1])
  /\ \A i \in 2..Len(w) : IsLower(w[i])

\* [A-Za-z']+ : a word that can continue a name
IsNameWord(w) == w # <<>> /\ \A i \in DOMAIN w : IsLetter(w[i]) \/ w[i] = "'"

\* The last word of the run of name words that starts at word i.
RECURSIVE RunEnd(_, _)
RunEnd(words, i) ==
  IF i < Len(words) /\ IsNameWord(words[i + 1]) THEN RunEnd(words, i + 1) ELSE i

\* [\d,]+ at the start of a word: its longest prefix of digits and commas
RECURSIVE NumPrefix(_)
NumPrefix(w) ==
  IF w # <<>> /\ (IsDigit(w[1]) \/ w[1] = ",") THEN <<w[1]>> \o NumPrefix(Tail(w))
  ELSE <<>>

\* pattern.finditer(text) from word i on: a name, then ":" or blanks, then a
\* number.  The name runs up to the word before the separator.
RECURSIVE TextCounts(_, _, _)
TextCounts(words, i, counts) ==
  IF i > Len(words) THEN counts
  ELSE IF ~IsNameHead(words[i]) THEN TextCounts(words, i + 1, counts)
  ELSE
    LET j == RunEnd(words, i)
        k == IF j < Len(words) /\ words[j + 1] = <<":">> THEN j + 2 ELSE j + 1
        count_str == IF k <= Len(words) THEN NumPrefix(words[k]) ELSE <<>>
        name == Strip(Join(SubSeq(words, i, j), <<" ">>))
        count == parse_count_value(count_str)
    IN IF count_str = <<>> THEN TextCounts(words, i + 1, counts)
       ELSE IF Lower(name) \in skip_words THEN TextCounts(words, k + 1, counts)
       ELSE IF count # <<>> /\ count[1] > 0
            THEN TextCounts(words, k + 1, DictSet(counts, name, count[1]))
       ELSE TextCounts(words, k + 1, counts)

\* extract_counts_from_text(text)
extract_counts_from_text(words) == TextCounts(words, 1, <<>>)

(***************************************************************************)
(* parsers/fws_html.py                                                     *)
(***************************************************************************)
\* parse_fws_refuge_page(response): <<ParseResult>>, or <<>> for None.  The
\* modelled pages carry no OBSERVER(S): field, so extract_observers finds none.
parse_fws_refuge_page(page) ==
  LET survey_date == parse_survey_date(page.dates)
      table_counts == extract_table_counts(page.rows)
      species_counts == IF table_counts # <<>> THEN table_counts
                        ELSE extract_counts_from_text(PageText(page))
  IN IF survey_date = <<>> THEN <<>>
     ELSE IF species_counts = <<>> THEN <<>>
     ELSE << [survey_date |-> survey_date,
              species_counts |-> species_counts,
              observers |-> None,
              survey_type |-> "weekly"] >>

\* parse_fws_story_page(response): the same steps on the story page's text
parse_fws_story_page(page) ==
  LET survey_date == parse_survey_date(page.dates)
      table_counts == extract_table_counts(page.rows)
      species_counts == IF table_counts # <<>> THEN table_counts
                        ELSE extract_counts_from_text(PageText(page))
  IN IF survey_date = <<>> THEN <<>>
     ELSE IF species_counts = <<>> THEN <<>>
     ELSE << [survey_date |-> survey_date,
              species_counts |-> species_counts,
              observers |-> None,
              survey_type |-> "weekly"] >>

(***************************************************************************)
(* parsers/clarence_cannon_html.py                                         *)
(*                                                                         *)
(* The page is the sequence of the rows of table.table-striped (none when  *)
(* the table is missing); a row is the sequence of its cell texts.         *)
(***************************************************************************)
CC_SKIP_NAMES ==
  { <<"t","o","t","a","l"," ","d","u","c","k","s">>, <<"t","o","t","a","l"," ","g","e","e","s","e">>, <<"t","o","t","a","l"," ","w","a","t","e","r","f","o","w","l">>, <<"t","o","t","a","l">>,
    <<"s","p","e","c","i","e","s"," ","&"," ","c","o","d","e">>, <<"s","p","e","c","i","e","s">> }

\* _parse_date_header(cell_text): "YYYY-MM-DD", or <<>> for None
parse_date_header(cell_text) ==
  LET parts == SplitOn(Strip(cell_text), "/")
      shaped == /\ Len(parts) = 3
                /\ \A i \in 1..3 : AllDigits(parts[i])
                /\ Len(parts[1]) \in 1..2 /\ Len(parts[2]) \in 1..2
                /\ Len(parts[3]) \in 2..4
      y == IntOfDigits(parts[3])
      year == IF y < 100 THEN y + 2000 ELSE y
  IN IF ~shaped THEN <<>>
     ELSE IF ValidDate(year, IntOfDigits(parts[1]), IntOfDigits(parts[2]))
          THEN strftime(year, IntOfDigits(parts[1]), IntOfDigits(parts[2]))
     ELSE <<>>

\* _is_skip_row(first_cell)
is_skip_row(first_cell) ==
  LET normalized == Strip(Lower(first_cell))
  IN \/ normalized = <<>>
     \/ \E skip \in CC_SKIP_NAMES : Contains(normalized, skip)

\* re.sub(r"\s*\([A-Z/]+\)\s*$", "", first).strip()
StripCode(first) ==
  LET t == RStrip(first)
      opens == {i \in 1..(Len(t) - 2) :
                  /\ t[i] = "("
                  /\ \A k \in (i + 1)..(Len(t) - 1) : IsUpper(t[k]) \/ t[k] = "/"}
  IN IF t # <<>> /\ t[Len(t)] = ")" /\ opens # {}
     THEN Strip(SubSeq(t, 1, (CHOOSE i \in opens : TRUE) - 1))
     ELSE Strip(first)

IsHeaderRow(row) == row # <<>> /\ Contains(Upper(row[1]), <<"S","P","E","C","I","E","S">>)

\* Pass 1: the date, or <<>>, of each column after the first of the first
\* header row; <<>> when no row is a header.
DateColumns(rows) ==
  IF \E i \in DOMAIN rows : IsHeaderRow(rows[i])
  THEN LET h == rows[CHOOSE i \in DOMAIN rows :
                       IsHeaderRow(rows[i]) /\ \A j \in 1..(i - 1) : ~IsHeaderRow(rows[j])]
       IN [i \in 1..(Len(h) - 1) |-> parse_date_header(h[i + 1])]
  ELSE <<>>

\* Pass 2 on one row: the (date, species, count) assignments it makes, in order.
RowEntries(row, date_columns) ==
  IF row = <<>> THEN <<>>
  ELSE IF row[1] = <<>> \/ Contains(Upper(row[1]), <<"S","P","E","C","I","E","S">>) THEN <<>>
  ELSE IF is_skip_row(row[1]) THEN <<>>
  ELSE IF StripCode(row[1]) = <<>> THEN <<>>
  ELSE
    LET n == IF Len(row) - 1 < Len(date_columns) THEN Len(row) - 1
             ELSE Len(date_columns)
        entry(i) == [date |-> date_columns[i], name |-> StripCode(row[1]),
                     count |-> parse_count_value(row[i + 1])]
        all == [i \in 1..n |-> entry(i)]
    IN SelectSeq(all, LAMBDA e : e.date # <<>> /\ e.count # <<>> /\ e.count[1] # 0)

RECURSIVE DictOfEntries(_, _)
DictOfEntries(entries, d) ==
  IF entries = <<>> THEN d
  ELSE DictOfEntries(Tail(entries), DictSet(d, Head(entries).name, Head(entries).count[1]))

\* The order of "YYYY-MM-DD" strings, which sorted() puts the dates in.
IsoKey(date) == IntOfDigits(Remove(date, "-"))

RECURSIVE SortedDates(_)
SortedDates(dates) ==
  IF dates = {} THEN <<>>
  ELSE LET first == CHOOSE d \in dates : \A e \in dates : IsoKey(d) <= IsoKey(e)
       IN <<first>> \o SortedDates(dates \ {first})

\* parse_clarence_cannon_html(response): the list of ParseResult
parse_clarence_cannon_html(rows) ==
  LET date_columns == DateColumns(rows)
      entries == Flatten([i \in DOMAIN rows |-> RowEntries(rows[i], date_columns)])
      dates == SortedDates({entries[i].date : i \in DOMAIN entries})
  IN IF rows = <<>> \/ date_columns = <<>> THEN <<>>
     ELSE [k \in DOMAIN dates |->
             [survey_date |-> dates[k],
              species_counts |->
                DictOfEntries(SelectSeq(entries, LAMBDA e : e.date = dates[k]), <<>>),
              observers |-> None,
              survey_type |-> "weekly"]]

(***************************************************************************)
(* parsers/loess_bluffs_pdf.py                                             *)
(*                                                                         *)
(* The extracted text is modelled by its length, the digit groups of its   *)
(* "Date: dddd-dd-dd" header (<<>> when it has none), the digit groups of  *)
(* its dd/dd/dddd column dates in text order, and its table lines: a name  *)
(* followed by values.  A modelled line with values has a number first,    *)
(* and no modelled name is spelled with the letters of "Present" alone.    *)
(***************************************************************************)
LB_SKIP_NAMES ==
  { <<"S","p","e","c","i","e","s"," ","G","r","o","u","p">>, <<"B","a","l","d"," ","E","a","g","l","e","s">>, <<"S","p","e","c","i","e","s">>, <<"G","e","e","s","e">>, <<"D","a","b","b","l","e","r","s">>,
    <<"D","i","v","e","r","s">>, <<"A","l","l"," ","D","u","c","k","s">>, <<"S","h","o","r","e","b","i","r","d","s">>, <<"A","d","u","l","t">>, <<"I","m","m","a","t","u","r","e">>,
    <<"A","l","l"," ","E","a","g","l","e","s">>, <<"H","a","b","i","t","a","t"," ","C","o","n","d","i","t","i","o","n">>, <<"H","a","b","i","t","a","t"," ","F","a","i","r">>, <<"H","a","b","i","t","a","t"," ","G","o","o","d">>,
    <<"H","a","b","i","t","a","t"," ","P","o","o","r">>, <<"H","a","b","i","t","a","t"," ","E","x","c","e","l","l","e","n","t">> }

LB_NON_SPECIES ==
  { <<"H","a","b","i","t","a","t">>, <<"C","o","n","d","i","t","i","o","n">>, <<"A","c","r","e","s">>, <<"P","e","r","c","e","n","t","a","g","e">>, <<"W","e","t","l","a","n","d">> }

\* unique_dates[-1]: the date whose first occurrence comes last
LastUnique(column_dates) ==
  column_dates[CHOOSE i \in DOMAIN column_dates :
                 /\ \A j \in 1..(i - 1) : column_dates[j] # column_dates[i]
                 /\ \A k \in (i + 1)..Len(column_dates) :
                      \E j \in 1..(k - 1) : column_dates[j] = column_dates[k]]

\* The survey date: the header's text as it stands, replaced by the last
\* column date when strptime accepts that one.
LoessSurveyDate(header_date, column_dates) ==
  LET raw == ZeroPad(header_date[1], 4) \o <<"-">> \o ZeroPad(header_date[2], 2)
               \o <<"-">> \o ZeroPad(header_date[3], 2)
      last == LastUnique(column_dates)
  IN IF column_dates # <<>> /\ ValidDate(last[3], last[1], last[2])
     THEN strftime(last[3], last[1], last[2])
     ELSE raw

\* [A-Za-z\s’'-]
IsLineNameChar(c) == IsLetter(c) \/ c \in {" ", "\n", "u2019", "'", "-"}

IsNumeric(v) == v # <<>> /\ \A i \in DOMAIN v : IsDigit(v[i]) \/ v[i] = ","

\* [\d,Present]+
IsValueWord(v) ==
  v # <<>> /\ \A i \in DOMAIN v :
                IsDigit(v[i]) \/ v[i] \in {",", "P", "r", "e", "s", "n", "t"}

\* A line that only continues a name: no values, name characters throughout.
IsNameOnlyLine(line) ==
  /\ line.values = <<>> /\ line.name # <<>>
  /\ \A i \in DOMAIN line.name : IsLineNameChar(line.name[i])

\* A line that ends a match: a name, a number, then further values.
IsValueLine(line) ==
  /\ line.name # <<>>
  /\ \A i \in DOMAIN line.name : IsLineNameChar(line.name[i])
  /\ line.values # <<>> /\ IsNumeric(line.values[1])
  /\ \A i \in 2..Len(line.values) : IsValueWord(line.values[i])

\* The line a match that starts at line i ends at, or 0 when none does.
RECURSIVE MatchEnd(_, _)
MatchEnd(lines, i) ==
  IF i > Len(lines) THEN 0
  ELSE IF IsValueLine(lines[i]) THEN i
  ELSE IF IsNameOnlyLine(lines[i]) THEN MatchEnd(lines, i + 1)
  ELSE 0

\* re.findall(r"[\d,]+|Present", values_str)[-1] as a count
LastValueCount(values) ==
  LET found == SelectSeq(values, LAMBDA v : IsNumeric(v) \/ v = <<"P","r","e","s","e","n","t">>)
      last_val == found[Len(found)]
  IN IF last_val = <<"P","r","e","s","e","n","t">> THEN <<1>> ELSE parse_count_value(last_val)

\* species_line_pattern.finditer(text) from line i on
RECURSIVE LineCounts(_, _, _)
LineCounts(lines, i, counts) ==
  IF i > Len(lines) THEN counts
  ELSE
    LET j == IF lines[i].name # <<>> /\ IsUpper(lines[i].name[1])
             THEN MatchEnd(lines, i) ELSE 0
        species_name ==
          Strip(Join([k \in 1..(j - i + 1) |-> lines[i + k - 1].name], <<"\n">>))
        count == LastValueCount(lines[j].values)
    IN IF j = 0 \/ (j = i /\ Len(lines[i].name) < 2)
       THEN LineCounts(lines, i + 1, counts)
       ELSE IF species_name \in LB_SKIP_NAMES THEN LineCounts(lines, j + 1, counts)
       ELSE IF \E w \in LB_NON_SPECIES : Contains(species_name, w)
            THEN LineCounts(lines, j + 1, counts)
       ELSE IF count # <<>> /\ count[1] > 0
            THEN LineCounts(lines, j + 1, DictSet(counts, species_name, count[1]))
       ELSE LineCounts(lines, j + 1, counts)

\* parse_loess_bluffs_pdf(pdf_bytes): <<ParseResult>>, or <<>> for None
parse_loess_bluffs_pdf(pdf) ==
  LET species_counts == LineCounts(pdf.lines, 1, <<>>)
  IN IF pdf.text_len < 100 THEN <<>>
     ELSE IF pdf.header_date = <<>> THEN <<>>
     ELSE IF species_counts = <<>> THEN <<>>
     ELSE << [survey_date |-> LoessSurveyDate(pdf.header_date, pdf.column_dates),
              species_counts |-> species_counts,
              observers |-> None,
              survey_type |-> "weekly"] >>

(***************************************************************************)
(* extractors/llm.py, extractors/pdf.py                                    *)
(*                                                                         *)
(* The model's reply is the parsed JSON object, or an exception of the     *)
(* call.  A JSON value is null, an integer or a string.                    *)
(***************************************************************************)
JNull == [k |-> "null", n |-> 0, s |-> <<>>]

JInt(n) == [k |-> "int", n |-> n, s |-> <<>>]

JStr(s) == [k |-> "str", n |-> 0, s |-> s]

\* not v
Falsy(v) ==
  \/ v.k = "null"
  \/ v.k = "int" /\ v.n = 0
  \/ v.k = "str" /\ v.s = <<>>

\* int(v): <<n>>, or <<>> when int() raises ValueError or TypeError
IntOf(v) ==
  LET cleaned == Strip(v.s)
      signed == cleaned # <<>> /\ cleaned[1] \in {"-", "+"}
      digits == IF signed THEN Tail(cleaned) ELSE cleaned
  IN CASE v.k = "int" -> <<v.n>>
       [] v.k = "null" -> <<>>
       [] v.k = "str" ->
            IF ~AllDigits(digits) THEN <<>>
            ELSE IF cleaned[1] = "-" THEN << 0 - IntOfDigits(digits) >>
            ELSE << IntOfDigits(digits) >>

\* datetime.strptime(s, "%Y-%m-%d") does not raise ValueError
StrptimeYmdAccepts(s) ==
  LET parts == SplitOn(s, "-")
  IN /\ Len(parts) = 3
     /\ \A i \in 1..3 : AllDigits(parts[i])
     /\ Len(parts[1]) = 4 /\ Len(parts[2]) \in 1..2 /\ Len(parts[3]) \in 1..2
     /\ ValidDate(IntOfDigits(parts[1]), IntOfDigits(parts[2]), IntOfDigits(parts[3]))

RECURSIVE CleanedCounts(_, _, _)
CleanedCounts(species_counts, i, cleaned) ==
  IF i > Len(species_counts) THEN cleaned
  ELSE
    LET name == species_counts[i].name
        count == species_counts[i].count
    IN IF name = <<>> \/ Falsy(count) THEN CleanedCounts(species_counts, i + 1, cleaned)
       ELSE IF IntOf(count) = <<>> THEN CleanedCounts(species_counts, i + 1, cleaned)
       ELSE CleanedCounts(species_counts, i + 1, DictSet(cleaned, name, IntOf(count)[1]))

\* extract_bird_counts_from_text(text, source_url): <<dict>>, or <<>> for None
extract_bird_counts_from_text(text_len, reply) ==
  LET cleaned_counts == CleanedCounts(reply.data.species_counts, 1, <<>>)
      survey_date == reply.data.survey_date
      observers == reply.data.observers
  IN IF text_len < 50 THEN <<>>
     ELSE IF reply.raises THEN <<>>
     ELSE IF cleaned_counts = <<>> THEN <<>>
     ELSE IF Falsy(survey_date) THEN <<>>
     ELSE IF survey_date.k # "str" THEN <<>>       \* TypeError, caught
     ELSE IF ~StrptimeYmdAccepts(survey_date.s) THEN <<>>
     ELSE << [survey_date |-> survey_date.s,
              species_counts |-> cleaned_counts,
              observers |-> IF observers # None /\ observers # "null"
                            THEN observers ELSE None] >>

\* extract_counts_from_pdf_bytes(pdf_bytes, source_url, survey_type)
extract_counts_from_pdf_bytes(pdf, survey_type) ==
  LET result == extract_bird_counts_from_text(pdf.text_len, pdf.reply)
  IN IF pdf.text_len < 50 THEN <<>>
     ELSE IF result = <<>> THEN <<>>
     ELSE << [survey_date |-> result[1].survey_date,
              species_counts |-> result[1].species_counts,
              observers |-> result[1].observers,
              survey_type |-> survey_type] >>

(***************************************************************************)
(* parsers/tpwd_excel.py: the historical workbook.  A sheet is the list of  *)
(* its rows, every row as long as the first; a cell is empty (NaN), a       *)
(* number or a text.  A text cell is digits or not a number at all.         *)
(***************************************************************************)
TPWD_SKIP_NAMES ==
  { <<"t","o","t","a","l"," ","d","a","b","b","l","e","r","s">>, <<"t","o","t","a","l"," ","d","i","v","e","r","s">>, <<"t","o","t","a","l"," ","d","u","c","k","s">>, <<"t","o","t","a","l"," ","g","e","e","s","e">>,
    <<"t","o","t","a","l"," ","s","w","a","n","s">>, <<"t","o","t","a","l"," ","c","o","o","t","s">>, <<"t","o","t","a","l">>, <<"s","u","r","v","e","y"," ","z","o","n","e">> }

\* _is_blank(val)
is_blank(val) ==
  \/ val.k = "null"
  \/ val.k = "str" /\ (Strip(val.s) \in {<<>>, <<"N","o","n","e">>} \/ Lower(Strip(val.s)) = <<"n","a","n">>)

\* _parse_count(val): <<>> for None
parse_count(val) ==
  IF is_blank(val) THEN <<>>
  ELSE IF val.k = "int" THEN (IF val.n < 0 THEN <<>> ELSE <<val.n>>)
  ELSE IF AllDigits(Strip(val.s)) THEN <<IntOfDigits(Strip(val.s))>>
  ELSE <<>>

\* str(val) of a cell that is not blank
CellStr(val) ==
  IF val.k = "str" THEN val.s
  ELSE IF val.n < 0 THEN <<"-">> \o StrOfNat(0 - val.n)
  ELSE StrOfNat(val.n)

\* year_cols.get(col_idx): int(float(str(val))) of the header cell, kept when
\* it lies in 1990..2030
YearOfCol(header_row, col_idx) ==
  LET val == header_row[col_idx]
      year == IF val.k = "int" THEN <<val.n>>
              ELSE IF val.k = "str" /\ AllDigits(Strip(val.s))
                   THEN <<IntOfDigits(Strip(val.s))>>
              ELSE <<>>
  IN IF year # <<>> /\ 1990 <= year[1] /\ year[1] <= 2030 THEN year ELSE <<>>

\* species_counts.get(slug, 0)
CountOf(d, slug) ==
  IF \E i \in DOMAIN d : d[i].name = slug
  THEN d[CHOOSE i \in DOMAIN d : d[i].name = slug].count
  ELSE 0

\* The inner loop storing the count of the row instead of adding it to the
\* sum: of several rows of one slug the last one alone is kept.
RECURSIVE RowYearCountsLast(_, _, _, _, _, _)
RowYearCountsLast(header_row, row, slug, year, col_idx, acc) ==
  IF col_idx > Len(header_row) THEN acc
  ELSE LET count == parse_count(row[col_idx])
           hit == /\ YearOfCol(header_row, col_idx) = <<year>>
                  /\ count # <<>> /\ count[1] > 0
       IN RowYearCountsLast(header_row, row, slug, year, col_idx + 1,
            IF hit THEN DictSet(acc, slug, count[1]) ELSE acc)

\* the inner loop over year_cols for one row, for the columns of one year
RECURSIVE RowYearCounts(_, _, _, _, _, _)
RowYearCounts(header_row, row, slug, year, col_idx, acc) ==
  IF col_idx > Len(header_row) THEN acc
  ELSE LET count == parse_count(row[col_idx])
           hit == /\ YearOfCol(header_row, col_idx) = <<year>>
                  /\ count # <<>> /\ count[1] > 0
       IN RowYearCounts(header_row, row, slug, year, col_idx + 1,
            IF hit THEN DictSet(acc, slug, CountOf(acc, slug) + count[1])
            ELSE acc)

\* species_raw of a data row
SpeciesRaw(row) == IF is_blank(row[2]) THEN <<>> ELSE Strip(CellStr(row[2]))

\* counts_by_year kept between calls (a module-level dict): a second call on
\* the same sheet adds to the sums the first call left.
RECURSIVE YearCountsCarried(_, _, _, _)
YearCountsCarried(df, year, row_idx, acc) ==
  IF row_idx > Len(df)
  THEN LET earlier == SelectSeq(results,
                        LAMBDA r : r.survey_date = StrOfNat(year) \o <<"-","0","1","-","1","5">>)
       IN IF earlier = <<>> THEN acc
          ELSE [i \in DOMAIN acc |->
                  [name |-> acc[i].name,
                   count |-> acc[i].count
                               + CountOf(earlier[1].species_counts, acc[i].name)]]
  ELSE LET row == df[row_idx]
           species_raw == SpeciesRaw(row)
           slug == resolve_species_slug(species_raw)
           skip == \/ species_raw = <<>>
                   \/ Lower(species_raw) \in TPWD_SKIP_NAMES
                   \/ slug = None
       IN YearCountsCarried(df, year, row_idx + 1,
            IF skip THEN acc
            ELSE RowYearCounts(df[3], row, slug, year, 1, acc))

\* counts_by_year[year] after the rows from row_idx on
RECURSIVE YearCounts(_, _, _, _)
YearCounts(df, year, row_idx, acc) ==
  IF row_idx > Len(df) THEN acc
  ELSE LET row == df[row_idx]
           species_raw == SpeciesRaw(row)
           slug == resolve_species_slug(species_raw)
           skip == \/ species_raw = <<>>
                   \/ Lower(species_raw) \in TPWD_SKIP_NAMES
                   \/ slug = None
       IN YearCounts(df, year, row_idx + 1,
            IF skip THEN acc
            ELSE RowYearCounts(df[3], row, slug, year, 1, acc))

\* sorted(counts_by_year.keys()) above a year
RECURSIVE SortedYears(_)
SortedYears(years) ==
  IF years = {} THEN <<>>
  ELSE LET y == CHOOSE a \in years : \A b \in years : a <= b
       IN <<y>> \o SortedYears(years \ {y})

YearDate(year) == StrOfNat(year) \o <<"-","0","1","-","1","5">>

\* _parse_historical(excel_bytes): raised is TRUE when an IndexError leaves
\* the function, and results is the returned list otherwise.  df.iloc[2] is
\* taken of any sheet that was read, and row.iloc[1] of every row after it.
parse_historical(book) ==
  LET df == book.rows
      years == {YearOfCol(df[3], c)[1] :
                  c \in {c \in DOMAIN df[3] : YearOfCol(df[3], c) # <<>>}}
      order == SortedYears(years)
      recs == [i \in DOMAIN order |->
                 [survey_date |-> YearDate(order[i]),
                  species_counts |-> YearCounts(df, order[i], 4, <<>>),
                  observers |-> None,
                  survey_type |-> "annual_midwinter"]]
  IN IF ~book.read_ok THEN [raised |-> FALSE, results |-> <<>>]
     ELSE IF Len(df) < 3 THEN [raised |-> TRUE, results |-> <<>>]
     ELSE IF years = {} THEN [raised |-> FALSE, results |-> <<>>]
     ELSE IF Len(df) > 3 /\ Len(df[3]) < 2 THEN [raised |-> TRUE, results |-> <<>>]
     ELSE [raised |-> FALSE,
           results |-> SelectSeq(recs, LAMBDA r : r.species_counts # <<>>)]

(***************************************************************************)
(* parsers/agfc_pdf.py.  The page text is the list of its date expressions  *)
(* and the list of its count mentions.  A date expression has a month       *)
(* written in full ("full"), abbreviated ("abbr") or abbreviated with a     *)
(* period ("abbr_dot"), and one of three shapes:                            *)
(*   "single"  Month D, YYYY            days = <<D>>                        *)
(*   "range"   Month D1-D2, YYYY        days = <<D1, D2>>                   *)
(*   "multi"   Month D0, D1-D2, YYYY    days = <<D0, D1, D2>>               *)
(* with dash "-" or "u2013" (an en dash) between the days of a range.       *)
(***************************************************************************)
AGFC_DATE_PATTERNS == <<"full_month", "abbr_month">>

\* Whether the month as written is matched by the pattern's month
\* alternation and followed by white space ("May" is both forms).
AgfcMonthMatches(p, e) ==
  CASE AGFC_DATE_PATTERNS[p] = "full_month" ->
         e.form = "full" \/ (e.form = "abbr" /\ e.m = 5)
    [] AGFC_DATE_PATTERNS[p] = "abbr_month" ->
         e.form \in {"abbr", "abbr_dot"} \/ (e.form = "full" /\ e.m = 5)

\* Whether AGFC_DATE_PATTERNS[p] matches at the i-th date expression: after
\* the month one day, or two days joined by "-", then the year.
AgfcPatternMatchesAt(p, dates, i) ==
  /\ AgfcMonthMatches(p, dates[i])
  /\ \/ dates[i].shape = "single"
     \/ dates[i].shape = "range" /\ dates[i].dash = "-"

\* pattern.search(text): the first date expression the pattern matches, or 0
AgfcPatternSearch(p, dates) ==
  IF \E i \in DOMAIN dates : AgfcPatternMatchesAt(p, dates, i)
  THEN CHOOSE i \in DOMAIN dates :
         /\ AgfcPatternMatchesAt(p, dates, i)
         /\ \A j \in 1..(i - 1) : ~AgfcPatternMatchesAt(p, dates, j)
  ELSE 0

\* The matched text after range_match rewrote it, through the four strptime
\* formats: <<>> when every format raises ValueError.  A range loses the
\* period of its month; a single date keeps it, and no format takes it.
AgfcStrptime(e) ==
  LET day == IF e.shape = "range" THEN e.days[2] ELSE e.days[1]
  IN IF e.shape = "single" /\ e.form = "abbr_dot" THEN <<>>
     ELSE IF ~ValidDate(e.y, e.m, day) THEN <<>>
     ELSE strftime(e.y, e.m, day)

RECURSIVE TryAgfcPatterns(_, _)
TryAgfcPatterns(p, dates) ==
  IF p > Len(AGFC_DATE_PATTERNS) THEN <<>>
  ELSE LET i == AgfcPatternSearch(p, dates)
       IN IF i # 0 /\ AgfcStrptime(dates[i]) # <<>>
          THEN AgfcStrptime(dates[i])
          ELSE TryAgfcPatterns(p + 1, dates)

\* parse_agfc_date(text): "YYYY-MM-DD", or <<>> for None
parse_agfc_date(dates) == TryAgfcPatterns(1, dates)

\* A mention is "<lead> N <what>" or, for the lead "of those being",
\* "N of those being <what>".  MALLARD_PATTERNS[1] takes the leads
\* "estimated" and "including", [2] the lead "of those being", and [3] every
\* "N mallards": how many of the three patterns find the mention.
MallardHits(mention) ==
  IF mention.what # "mallards" THEN 0
  ELSE IF mention.lead \in {"estimated", "including"} THEN 2
  ELSE 1

\* sum(mallard_counts)
RECURSIVE MallardSum(_)
MallardSum(mentions) ==
  IF mentions = <<>> THEN 0
  ELSE LET val == parse_count_value(Head(mentions).count)
       IN (IF val # <<>> /\ val[1] > 1000
           THEN MallardHits(Head(mentions)) * val[1] ELSE 0)
          + MallardSum(Tail(mentions))

\* re.search of one goose pattern: the count of the first mention, kept when
\* it is not zero
GooseCount(mentions, what) ==
  LET hits == SelectSeq(mentions, LAMBDA mn : mn.what = what)
      val == parse_count_value(hits[1].count)
  IN IF hits = <<>> THEN <<>>
     ELSE IF val = <<>> \/ val[1] = 0 THEN <<>>
     ELSE val

AgfcEntry(name, val) ==
  IF val = <<>> THEN <<>> ELSE <<[name |-> name, count |-> val[1]]>>

\* parse_agfc_pdf(pdf_bytes): a one-element list, or <<>> for None
parse_agfc_pdf(pdf) ==
  LET survey_date == parse_agfc_date(pdf.dates)
      mallards == MallardSum(pdf.mentions)
      species_counts ==
        AgfcEntry(Mallard, IF mallards > 0 THEN <<mallards>> ELSE <<>>)
          \o AgfcEntry(<<"S","n","o","w","/","R","o","s","s","'","s"," ","G","o","o","s","e">>, GooseCount(pdf.mentions, "light geese"))
          \o AgfcEntry(<<"G","r","e","a","t","e","r"," ","W","h","i","t","e","-","f","r","o","n","t","e","d"," ","G","o","o","s","e">>,
                       GooseCount(pdf.mentions, "white-fronted geese"))
          \o AgfcEntry(<<"C","a","n","a","d","a"," ","G","o","o","s","e">>, GooseCount(pdf.mentions, "Canada geese"))
  IN IF ~pdf.readable \/ pdf.text_len < 100 THEN <<>>
     ELSE IF survey_date = <<>> THEN <<>>
     ELSE IF species_counts = <<>> THEN <<>>
     ELSE << [survey_date |-> survey_date,
              species_counts |-> species_counts,
              observers |-> pdf.observers,
              survey_type |-> "aerial_biweekly"] >>

(***************************************************************************)
(* parsers/ldwf_pdf.py.  The page text is its header date, when it has one, *)
(* written "Month D, YYYY" on a line of its own, followed by the other      *)
(* lines of the page; no other line holds a month name.                     *)
(***************************************************************************)
\* _LDWF_SPECIES_MAP, with <<>> for None
LDWF_SPECIES_MAP ==
  << [k |-> <<"M","A","L","L","A","R","D">>, v |-> <<"M","a","l","l","a","r","d">>],
     [k |-> <<"M","O","T","T","L","E","D">>, v |-> <<>>],
     [k |-> <<"G","A","D","W","A","L","L">>, v |-> <<>>],
     [k |-> <<"W","I","G","E","O","N">>, v |-> <<>>],
     [k |-> <<"G","W"," ","T","E","A","L">>, v |-> <<"G","r","e","e","n","-","w","i","n","g","e","d"," ","T","e","a","l">>],
     [k |-> <<"B","W"," ","T","E","A","L">>, v |-> <<"B","l","u","e","-","w","i","n","g","e","d"," ","T","e","a","l">>],
     [k |-> <<"S","H","O","V","E","L","E","R">>, v |-> <<>>],
     [k |-> <<"P","I","N","T","A","I","L">>, v |-> <<"N","o","r","t","h","e","r","n"," ","P","i","n","t","a","i","l">>],
     [k |-> <<"S","C","A","U","P">>, v |-> <<>>],
     [k |-> <<"R","I","N","G","N","E","C","K","E","D">>, v |-> <<>>],
     [k |-> <<"C","A","N","V","A","S","B","A","C","K">>, v |-> <<>>],
     [k |-> <<"C","O","O","T","S">>, v |-> <<>>],
     [k |-> <<"T","O","T","A","L"," ","D","A","B","B","L","E","R","S">>, v |-> <<>>],
     [k |-> <<"T","O","T","A","L"," ","D","I","V","E","R","S">>, v |-> <<>>],
     [k |-> <<"T","O","T","A","L"," ","D","U","C","K","S">>, v |-> <<>>] >>

LdwfDict == DictOf(LDWF_SPECIES_MAP)

\* re.findall(r"[\d,]+", s): the maximal runs of digits and commas
RECURSIVE FindNumbers(_)
FindNumbers(s) ==
  IF s = <<>> THEN <<>>
  ELSE IF NumPrefix(s) # <<>>
       THEN <<NumPrefix(s)>> \o FindNumbers(SubSeq(s, Len(NumPrefix(s)) + 1, Len(s)))
  ELSE FindNumbers(Tail(s))

\* s.startswith(prefix)
StartsWith(s, prefix) ==
  Len(s) >= Len(prefix) /\ SubSeq(s, 1, Len(prefix)) = prefix

\* The header line as the page prints it
LdwfDateLine(date) ==
  MonthNames[date.m] \o <<" ">> \o StrOfNat(date.d) \o <<",", " ">> \o StrOfNat(date.y)

\* text.split("\n")
LdwfLines(pdf) ==
  (IF pdf.date = <<>> THEN <<>> ELSE <<LdwfDateLine(pdf.date[1])>>) \o pdf.lines

\* The first number of the line (a regional column) in place of the last.
LdwfSetFirstNumber(species_counts, mapped_name, numbers) ==
  LET total == parse_count_value(numbers[1])
  IN IF numbers # <<>> /\ total # <<>> /\ total[1] > 0
     THEN DictSet(species_counts, mapped_name, total[1])
     ELSE species_counts

\* total = parse_count_value(numbers[-1]), stored when it is above zero
LdwfSetTotal(species_counts, mapped_name, numbers) ==
  LET total == parse_count_value(numbers[Len(numbers)])
  IN IF numbers # <<>> /\ total # <<>> /\ total[1] > 0
     THEN DictSet(species_counts, mapped_name, total[1])
     ELSE species_counts

\* The species key a line starts with (format B), or <<>>
LeadingKey(upper) ==
  LET hits == SelectSeq(LDWF_SPECIES_MAP,
                LAMBDA e : e.v # <<>> /\ StartsWith(upper, e.k \o <<" ">>))
  IN IF hits = <<>> THEN <<>> ELSE hits[1].k

\* The loop over the lines from line i on
RECURSIVE LdwfTableCounts(_, _, _)
LdwfTableCounts(lines, i, species_counts) ==
  IF i > Len(lines) THEN species_counts
  ELSE
    LET stripped == Strip(lines[i])
        upper == Upper(stripped)
        species_key == LeadingKey(upper)
    IN LdwfTableCounts(lines, i + 1,
         IF DictHas(LdwfDict, upper)
         THEN IF LdwfDict[upper] = <<>> \/ i = 1 THEN species_counts
              ELSE LdwfSetTotal(species_counts, LdwfDict[upper],
                                FindNumbers(Strip(lines[i - 1])))
         ELSE IF species_key = <<>> THEN species_counts
         ELSE LdwfSetTotal(species_counts, LdwfDict[species_key],
                FindNumbers(Strip(SubSeq(stripped, Len(species_key) + 1,
                                         Len(stripped))))))

\* [\d,]+ before the end of a word: its longest suffix of digits and commas
RECURSIVE NumSuffix(_)
NumSuffix(w) ==
  IF w # <<>> /\ (IsDigit(w[Len(w)]) \/ w[Len(w)] = ",")
  THEN NumSuffix(SubSeq(w, 1, Len(w) - 1)) \o <<w[Len(w)]>>
  ELSE <<>>

\* pattern.search(text) of a goose pattern: a number, one of the kinds and
\* "geese" as three words in a row; the number of the first such place, kept
\* when it is above 100
GooseMention(words, kinds) ==
  LET at(i) == /\ NumSuffix(words[i]) # <<>>
               /\ Lower(words[i + 1]) \in kinds
               /\ StartsWith(Lower(words[i + 2]), <<"g","e","e","s","e">>)
      places == {i \in 1..(Len(words) - 2) : at(i)}
      first == CHOOSE i \in places : \A j \in places : i <= j
      val == parse_count_value(NumSuffix(words[first]))
  IN IF places = {} THEN <<>>
     ELSE IF val = <<>> \/ val[1] <= 100 THEN <<>>
     ELSE val

LdwfGeese(species_counts, words) ==
  LET snow == GooseMention(words, {<<"s","n","o","w">>, <<"l","i","g","h","t">>})
      wfg == GooseMention(words, {<<"w","h","i","t","e","-","f","r","o","n","t","e","d">>, <<"s","p","e","c","k","l","e","b","e","l","l","y">>})
      with_snow == IF snow = <<>> THEN species_counts
                   ELSE DictSet(species_counts, <<"S","n","o","w"," ","G","o","o","s","e">>, snow[1])
  IN IF wfg = <<>> THEN with_snow
     ELSE DictSet(with_snow, <<"G","r","e","a","t","e","r"," ","W","h","i","t","e","-","f","r","o","n","t","e","d"," ","G","o","o","s","e">>, wfg[1])

\* parse_ldwf_pdf(pdf_bytes): a one-element list, or <<>> for None
parse_ldwf_pdf(pdf) ==
  LET lines == LdwfLines(pdf)
      date == pdf.date[1]
      species_counts ==
        LdwfGeese(LdwfTableCounts(lines, 1, <<>>), Words(Join(lines, <<" ">>)))
  IN IF ~pdf.readable \/ pdf.text_len < 100 THEN <<>>
     ELSE IF pdf.date = <<>> THEN <<>>
     ELSE IF ~ValidDate(date.y, date.m, date.d) THEN <<>>
     ELSE IF species_counts = <<>> THEN <<>>
     ELSE << [survey_date |-> strftime(date.y, date.m, date.d),
              species_counts |-> species_counts,
              observers |-> pdf.observers,
              survey_type |-> "aerial_monthly"] >>

(***************************************************************************)
(* One document, parsed by the parser of its format; the items the handler *)
(* builds from the results are passed to the pipeline one by one.          *)
(***************************************************************************)
MaxDates == 2
MaxRows == 2
MaxCols == 2

SeqsUpTo(S, n) == UNION {[1..k -> S] : k \in 0..n}

DateExpr(kind, m, d, y) == [kind |-> kind, m |-> m, d |-> d, y |-> y]

\* A labeled date, a labeled date that no calendar holds, a prose date and a
\* bare slash date of the following year.
FwsDateExprs ==
  { DateExpr("labeled", 1, 13, 2026), DateExpr("labeled", 2, 30, 2026),
    DateExpr("prose", 1, 12, 2026), DateExpr("slash", 1, 13, 2027) }

FwsRows ==
  { <<Mallard, <<"5","0","0">>>>, <<SnowGoose, <<"5",",","0","0","0">>>>,
    <<<<"T","o","t","a","l"," ","D","u","c","k","s">>, <<"5",",","5","0","0">>>>, <<<<"T","O","T","A","L"," ","G","E","E","S","E">>, <<"5",",","0","0","0">>>>,
    <<Mallard, <<"-","5">>>>, <<<<"S","p","e","c","i","e","s">>, <<"C","o","u","n","t">>>> }

FwsPages == [dates : SeqsUpTo(FwsDateExprs, MaxDates), rows : SeqsUpTo(FwsRows, MaxRows)]

FwsRefugeDocs == {[fmt |-> "fws_refuge_page", page |-> p] : p \in FwsPages}

FwsStoryDocs ==
  {[fmt |-> "fws_story_page", page |-> p] : p \in {q \in FwsPages : Len(q.rows) <= 1}}

CcHeaderCells == { <<"1","0","/","3","/","2","2">>, <<"2","/","3","0","/","2","3">>, <<"1","/","1","3","/","2","0","2","7">> }

CcHeaders ==
  {<< <<"S","P","E","C","I","E","S"," ","&"," ","C","O","D","E">> >> \o cells : cells \in [1..MaxCols -> CcHeaderCells]}

CcRows ==
  { <<<<"M","a","l","l","a","r","d"," ","(","M","A","L","L",")">>, <<"5","0","0">>, <<"2","0">>>>, <<<<"M","a","l","l","a","r","d"," ","(","M","A","L","L",")">>, <<"-","5">>, <<"0">>>>,
    <<SnowGoose, <<>>, <<"1",",","2","0","0">>>>, <<<<"T","o","t","a","l"," ","D","u","c","k","s">>, <<"5","0","0">>, <<"1",",","2","2","0">>>>,
    <<Mallard, <<"7">>, <<"7">>>> }

\* The table with a header row first, and the page without a header row.
ClarenceCannonDocs ==
  {[fmt |-> "clarence_cannon_html", rows |-> <<h>> \o rows] :
     h \in CcHeaders, rows \in SeqsUpTo(CcRows, MaxRows)}
  \cup {[fmt |-> "clarence_cannon_html", rows |-> rows] : rows \in SeqsUpTo(CcRows, 1)}

LbLine(name, values) == [name |-> name, values |-> values]

LbLines ==
  { LbLine(Mallard, <<<<"1",",","2","0","0">>, <<"3",",","4","0","0">>>>), LbLine(SnowGoose, <<<<"5">>, <<"P","r","e","s","e","n","t">>>>),
    LbLine(<<"T","o","t","a","l"," ","W","a","t","e","r","f","o","w","l">>, <<<<"9",",","0","0","0">>>>), LbLine(<<"A","l","l"," ","D","u","c","k","s">>, <<<<"1","0","0">>>>),
    LbLine(<<"S","p","e","c","i","e","s"," ","G","r","o","u","p">>, <<>>), LbLine(Mallard, <<<<"0">>>>) }

LoessBluffsDocs ==
  [fmt : {"loess_bluffs_pdf"},
   text_len : {99, 100},
   header_date : {<<>>, <<2026, 1, 6>>, <<2026, 13, 45>>},
   column_dates : SeqsUpTo({<<12, 30, 2025>>, <<13, 45, 2025>>}, MaxDates),
   lines : SeqsUpTo(LbLines, MaxRows)]

LlmDates ==
  { JNull, JInt(20260113), JStr(<<"2","0","2","6","-","0","1","-","1","3">>), JStr(<<"2","0","2","6","-","1","-","5">>),
    JStr(<<"2","0","2","6","-","0","2","-","3","0">>), JStr(<<"0","1","/","1","3","/","2","0","2","6">>) }

LlmPairs ==
  { [name |-> Mallard, count |-> JInt(500)], [name |-> Mallard, count |-> JInt(-5)],
    [name |-> SnowGoose, count |-> JStr(<<"1","2","0","0">>)],
    [name |-> SnowGoose, count |-> JStr(<<"1",",","2","0","0">>)],
    [name |-> <<"T","o","t","a","l"," ","D","u","c","k","s">>, count |-> JInt(9000)],
    [name |-> <<"G","a","d","w","a","l","l">>, count |-> JInt(0)] }

\* JSON objects: no name twice
LlmCounts ==
  {c \in SeqsUpTo(LlmPairs, MaxRows) :
     \A i, j \in DOMAIN c : i # j => c[i].name # c[j].name}

LlmReplies ==
  [raises : {FALSE},
   data : [survey_date : LlmDates, species_counts : LlmCounts,
           observers : {None, "null", "J. Smith"}]]
  \cup
  [raises : {TRUE},
   data : [survey_date : {JNull}, species_counts : {<<>>}, observers : {None}]]

LlmDocs == [fmt : {"llm_pdf"}, text_len : {49, 50}, reply : LlmReplies]

\* Sheets of the historical workbook: none to two title rows alone, or two
\* title rows, a header row and up to MaxRows species rows.
TpwdHeaders ==
  { <<JNull, JStr(<<"S","p","e","c","i","e","s">>), JInt(2017), JInt(2018)>>,
    <<JNull, JStr(<<"S","p","e","c","i","e","s">>), JInt(2018), JInt(2017)>>,
    <<JNull, JStr(<<"S","p","e","c","i","e","s">>), JInt(2018), JStr(<<"2","0","1","8">>)>>,
    <<JNull, JStr(<<"S","p","e","c","i","e","s">>), JStr(<<"T","o","t","a","l">>), JInt(1989)>> }

TpwdRows ==
  { <<JNull, name, a, b>> :
      name \in {JStr(Mallard), JStr(<<" ","m","a","l","l","a","r","d","s">>), JStr(<<"T","o","t","a","l"," ","D","u","c","k","s">>), JNull},
      a \in {JInt(5), JNull},
      b \in {JInt(3), JInt(0 - 1), JStr(<<"7">>)} }

TpwdTitle(n) == [i \in 1..n |-> JNull]

TpwdSheets ==
  {<<TpwdTitle(4), TpwdTitle(4), h>> \o rows :
     h \in TpwdHeaders, rows \in SeqsUpTo(TpwdRows, MaxRows)}
  \cup {[i \in 1..n |-> TpwdTitle(4)] : n \in 0..2}
  \cup {[i \in 1..n |-> <<JInt(2018)>>] : n \in 3..4}

TpwdDocs ==
  {[fmt |-> "tpwd_excel", read_ok |-> TRUE, rows |-> rows] : rows \in TpwdSheets}
  \cup {[fmt |-> "tpwd_excel", read_ok |-> FALSE, rows |-> <<>>]}

AgfcDate(form, m, shape, dash, days, y) ==
  [form |-> form, m |-> m, shape |-> shape, dash |-> dash, days |-> days, y |-> y]

\* "January 19-23, 2026", the same with an en dash, "Dec. 10, 15-23, 2025",
\* "Dec. 15-23, 2025", "November 28-31, 2025", "Dec 1, 2025" and
\* "Dec. 10, 2025".
AgfcDateExprs ==
  { AgfcDate("full", 1, "range", "-", <<19, 23>>, 2026),
    AgfcDate("full", 1, "range", "u2013", <<19, 23>>, 2026),
    AgfcDate("abbr_dot", 12, "multi", "-", <<10, 15, 23>>, 2025),
    AgfcDate("abbr_dot", 12, "range", "-", <<15, 23>>, 2025),
    AgfcDate("full", 11, "range", "-", <<28, 31>>, 2025),
    AgfcDate("abbr", 12, "single", "-", <<1>>, 2025),
    AgfcDate("abbr_dot", 12, "single", "-", <<10>>, 2025) }

AgfcMention(lead, count, what) == [lead |-> lead, count |-> count, what |-> what]

AgfcMentions ==
  { AgfcMention("estimated", <<"3","3","7",",","4","7","9">>, "mallards"),
    AgfcMention("", <<"1","2",",","0","7","5">>, "mallards"),
    AgfcMention("of those being", <<"8","0","0">>, "mallards"),
    AgfcMention("", <<"1",",","4","7","8",",","9","8","9">>, "light geese"),
    AgfcMention("", <<"0">>, "Canada geese") }

AgfcDocs ==
  {[fmt |-> "agfc_pdf", readable |-> TRUE, text_len |-> 100, dates |-> ds,
    mentions |-> ms, observers |-> None] :
     ds \in SeqsUpTo(AgfcDateExprs, MaxDates), ms \in SeqsUpTo(AgfcMentions, MaxRows)}
  \cup {[fmt |-> "agfc_pdf", readable |-> r, text_len |-> n,
         dates |-> <<AgfcDate("full", 1, "range", "-", <<19, 23>>, 2026)>>,
         mentions |-> <<AgfcMention("estimated", <<"3","3","7",",","4","7","9">>, "mallards")>>,
         observers |-> None] : r \in BOOLEAN, n \in {99, 100}}

\* Lines of an LDWF page: a numbers line, labels alone, rows with the label
\* first, a numbers line of zeros and a sentence about geese.
LdwfLinePool ==
  { <<"2",",","0","0","0"," ","2",",","0","0","0"," ","2",",","0","0","0"," ","6",",","0","0","0">>, <<"M","A","L","L","A","R","D">>, <<"G","a","d","w","a","l","l">>, <<" ","P","i","n","t","a","i","l"," ">>,
    <<"M","A","L","L","A","R","D"," ","1","8",",","0","0","0"," ","2",",","0","0","0"," ","*","*"," ","2","0",",","0","0","0">>, <<"G","W"," ","T","E","A","L"," ","1",",","0","0","0"," ","*","*"," ","3",",","0","0","0">>,
    <<"0"," ","0"," ","0"," ","0">>, <<"5",",","0","0","0"," ","s","n","o","w"," ","g","e","e","s","e">> }

LdwfDocs ==
  {[fmt |-> "ldwf_pdf", readable |-> TRUE, text_len |-> 100,
    date |-> <<[m |-> 11, d |-> 9, y |-> 2023]>>, lines |-> ls,
    observers |-> None] : ls \in SeqsUpTo(LdwfLinePool, MaxRows + 1)}
  \cup {[fmt |-> "ldwf_pdf", readable |-> r, text_len |-> n, date |-> dt,
         lines |-> <<<<"2",",","0","0","0"," ","2",",","0","0","0"," ","2",",","0","0","0"," ","6",",","0","0","0">>, <<"M","A","L","L","A","R","D">>>>,
         observers |-> None] :
          r \in BOOLEAN, n \in {99, 100},
          dt \in {<<>>, <<[m |-> 11, d |-> 31, y |-> 2023]>>,
                  <<[m |-> 11, d |-> 9, y |-> 2023]>>}}

Docs ==
  FwsRefugeDocs \cup FwsStoryDocs \cup ClarenceCannonDocs \cup LoessBluffsDocs
    \cup LlmDocs \cup TpwdDocs \cup AgfcDocs \cup LdwfDocs

\* datetime.now() at ingestion, as <<year, month, day>>
Todays == {<<2026, 1, 20>>}

SourceNamed(name) ==
  WATERFOWL_SOURCES[CHOOSE i \in DOMAIN WATERFOWL_SOURCES : WATERFOWL_SOURCES[i].name = name]

\* The items a handler builds from the results of its source's parser.
ItemsOf(source, rs) == [i \in DOMAIN rs |-> MakeItem(source, rs[i], source.url)]

InitParse ==
  /\ IdleStore /\ IdleRun /\ IdleResolve /\ IdleProbe /\ IdleMain /\ IdleScripts
  /\ doc \in Docs
  /\ today \in Todays
  /\ parsed = "no"
  /\ results = <<>>
  /\ reparsed = <<>>

Parsed(rs, its) ==
  /\ parsed' = "yes"
  /\ results' = rs
  /\ items' = its
  /\ UNCHANGED <<scriptVars, doc, today, reparsed, storeVars, resolveVars, probeVars,
                 mainVars, pc, dry_run,
                 conn, location_map, sources, src_idx, all_items, attempted,
                 handled, store_calls>>

\* _handle_html on the Washita page
ParseFwsRefugePage ==
  /\ parsed = "no" /\ doc.fmt = "fws_refuge_page"
  /\ LET rs == parse_fws_refuge_page(doc.page)
     IN Parsed(rs, ItemsOf(SourceNamed(Washita), rs))

\* _handle_html on the Salt Plains page
ParseFwsStoryPage ==
  /\ parsed = "no" /\ doc.fmt = "fws_story_page"
  /\ LET rs == parse_fws_story_page(doc.page)
     IN Parsed(rs, ItemsOf(SourceNamed(SaltPlains), rs))

\* parse_clarence_cannon_html on the survey page; no registered source uses
\* this parser, so no item is built.
ParseClarenceCannon ==
  /\ parsed = "no" /\ doc.fmt = "clarence_cannon_html"
  /\ Parsed(parse_clarence_cannon_html(doc.rows), <<>>)

\* _handle_pdf_url_list on one Loess Bluffs PDF
ParseLoessBluffs ==
  /\ parsed = "no" /\ doc.fmt = "loess_bluffs_pdf"
  /\ LET rs == parse_loess_bluffs_pdf(doc)
     IN Parsed(rs, ItemsOf(SourceNamed(LoessBluffs), rs))

\* extract_counts_from_pdf_bytes on one PDF; no handler calls it.
ExtractFromPdf ==
  /\ parsed = "no" /\ doc.fmt = "llm_pdf"
  /\ Parsed(extract_counts_from_pdf_bytes(doc, "aerial_biweekly"), <<>>)

\* _parse_historical on the 'State Wide estimates' sheet; no handler calls it.
\* An exception that leaves the parser is recorded in parsed.
ParseTpwdHistorical ==
  /\ parsed = "no" /\ doc.fmt = "tpwd_excel"
  /\ LET out == parse_historical(doc)
     IN IF out.raised
        THEN /\ parsed' = "raised"
             /\ UNCHANGED <<scriptVars, doc, today, results, reparsed, storeVars, runVars,
                          resolveVars, probeVars, mainVars>>
        ELSE Parsed(out.results, <<>>)

\* _handle_pdf_index on one AGFC PDF
ParseAgfcPdf ==
  /\ parsed = "no" /\ doc.fmt = "agfc_pdf"
  /\ LET rs == parse_agfc_pdf(doc)
     IN Parsed(rs, ItemsOf(SourceNamed(Agfc), rs))

\* _handle_pdf_url_list on one LDWF PDF
ParseLdwfPdf ==
  /\ parsed = "no" /\ doc.fmt = "ldwf_pdf"
  /\ LET rs == parse_ldwf_pdf(doc)
     IN Parsed(rs, ItemsOf(SourceNamed(Ldwf), rs))

\* The parser of the document's format, run on it once more: the regex and
\* table parsers read nothing but their argument and keep nothing between
\* calls.  (The extractor's output depends on the model's reply.)
ResultsOf(d) ==
  CASE d.fmt = "fws_refuge_page" -> parse_fws_refuge_page(d.page)
    [] d.fmt = "fws_story_page" -> parse_fws_story_page(d.page)
    [] d.fmt = "clarence_cannon_html" -> parse_clarence_cannon_html(d.rows)
    [] d.fmt = "loess_bluffs_pdf" -> parse_loess_bluffs_pdf(d)
    [] d.fmt = "tpwd_excel" -> parse_historical(d).results
    [] d.fmt = "agfc_pdf" -> parse_agfc_pdf(d)
    [] d.fmt = "ldwf_pdf" -> parse_ldwf_pdf(d)

ParseAgain ==
  /\ parsed = "yes" /\ reparsed = <<>> /\ doc.fmt # "llm_pdf"
  /\ reparsed' = <<ResultsOf(doc)>>
  /\ UNCHANGED <<scriptVars, doc, today, parsed, results, storeVars, runVars, resolveVars,
                 probeVars, mainVars>>

\* self._store_item(item) for the next item of the handler's list
IngestItem ==
  /\ parsed = "yes" /\ items # <<>>
  /\ \E fail_at \in 0..(Len(Head(items).species_counts) + 1) :
       \E rollback_raises \in {FALSE} \cup {b \in BOOLEAN : fail_at # 0} :
         StoreItem(Head(items), fail_at, rollback_raises)
  /\ items' = Tail(items)
  /\ UNCHANGED <<scriptVars, parseVars, resolveVars, probeVars, mainVars, pc, dry_run, conn,
                 location_map,
                 sources, src_idx, all_items, attempted, handled, store_calls>>

NextParse ==
  \/ ParseFwsRefugePage
  \/ ParseFwsStoryPage
  \/ ParseClarenceCannon
  \/ ParseLoessBluffs
  \/ ExtractFromPdf
  \/ ParseTpwdHistorical
  \/ ParseAgfcPdf
  \/ ParseLdwfPdf
  \/ ParseAgain
  \/ IngestItem

SpecParse == InitParse /\ [][NextParse]_vars

\* A label of an aggregate or subtotal row: "Total Ducks", "Grand Total",
\* "TOTAL GEESE", "Total Waterfowl".
IsAggregateLabel(name) == Contains(Lower(name), <<"t","o","t","a","l">>)

\* The labels of the rows of the document: the first cell of each table row
\* (header rows aside), the name of each text line.
DocLabels(d) ==
  CASE d.fmt \in {"fws_refuge_page", "fws_story_page"} ->
         {Strip(d.page.rows[i][1]) : i \in DOMAIN d.page.rows}
    [] d.fmt = "clarence_cannon_html" ->
         {Strip(d.rows[i][1]) : i \in {j \in DOMAIN d.rows : ~IsHeaderRow(d.rows[j])}}
    [] d.fmt = "loess_bluffs_pdf" -> {d.lines[i].name : i \in DOMAIN d.lines}
    [] OTHER -> {}

\* The document has rows, and all of them are aggregate rows.
OnlyAggregateRows(d) ==
  DocLabels(d) # {} /\ \A l \in DocLabels(d) : IsAggregateLabel(l)

\* The document carries no date expression that names a day of the calendar.
NoUsableDate(d) ==
  CASE d.fmt \in {"fws_refuge_page", "fws_story_page"} ->
         \A i \in DOMAIN d.page.dates :
           ~ValidDate(d.page.dates[i].y, d.page.dates[i].m, d.page.dates[i].d)
    [] d.fmt = "loess_bluffs_pdf" -> d.header_date = <<>>
    [] OTHER -> FALSE

\* "YYYY-MM-DD" naming a day that exists
IsIsoDate(s) ==
  /\ Len(s) = 10 /\ s[5] = "-" /\ s[8] = "-"
  /\ AllDigits(SubSeq(s, 1, 4)) /\ AllDigits(SubSeq(s, 6, 7))
  /\ AllDigits(SubSeq(s, 9, 10))
  /\ ValidDate(IntOfDigits(SubSeq(s, 1, 4)), IntOfDigits(SubSeq(s, 6, 7)),
               IntOfDigits(SubSeq(s, 9, 10)))

\* The survey date lies after the day t = <<year, month, day>>.
LaterThan(survey_date, t) ==
  IsoKey(survey_date) > t[1] * 10000 + t[2] * 100 + t[3]

\* C4 as claimed: every count of every record a parser or extractor returns is
\* a non-negative integer.
C4_CountsNonNegative ==
  \A i \in DOMAIN results :
    \A k \in DOMAIN results[i].species_counts :
      results[i].species_counts[k].count >= 0

\* C5 as claimed: a parser returns no record for a document without a usable
\* survey date or with aggregate rows only, and no returned record lacks its
\* survey date or its counts.
C5_FailureWithoutDateOrCounts ==
  parsed = "yes" =>
    /\ (NoUsableDate(doc) \/ OnlyAggregateRows(doc)) => results = <<>>
    /\ \A i \in DOMAIN results :
         results[i].survey_date # <<>> /\ results[i].species_counts # <<>>

\* C6 as claimed: the survey_date of every returned record is a valid
\* calendar date in YYYY-MM-DD form.
C6_SurveyDateIsCalendarDate ==
  \A i \in DOMAIN results : IsIsoDate(results[i].survey_date)

\* C7 as claimed: no record handed to persistence has a survey_date later than
\* the current date at ingestion time.
C7_NoFutureDateHanded ==
  last_store.status # "none" => ~LaterThan(last_store.item.survey_date, today)

\* C8 as claimed: no aggregate or subtotal label is a key of species_counts in
\* the output of any parser.
\* (the keys of an annual_midwinter record are slugs of MWI_COLUMN_MAPPING,
\* where every aggregate label maps to None and is skipped: only the display
\* names of the other parsers are read as text)
C8_NoAggregateKey ==
  \A i \in DOMAIN results :
    results[i].survey_type # "annual_midwinter" =>
      \A k \in DOMAIN results[i].species_counts :
        ~IsAggregateLabel(results[i].species_counts[k].name)

\* key in table, on the table as written in species_mapping.py
InTable(table, key) == \E i \in DOMAIN table : table[i].k = key

\* The value the dict literal gives the key: that of its last occurrence.
EntryOf(table, key) ==
  table[CHOOSE i \in DOMAIN table :
          table[i].k = key /\ \A j \in DOMAIN table : table[j].k = key => j <= i].v

\* C11: the result is the entry of the first of SPECIES_ALIASES (looked up by
\* the trimmed lower-case label), MWI_COLUMN_MAPPING and REFUGE_SURVEY_MAPPING
\* (looked up by the trimmed label) that contains the label, and None when
\* none contains it.
C11_FirstMatchWins ==
  resolved # <<>> =>
    LET stripped == Strip(label)
        normalized == Lower(stripped)
    IN resolved[1] =
         IF InTable(SPECIES_ALIASES, normalized)
         THEN EntryOf(SPECIES_ALIASES, normalized)
         ELSE IF InTable(MWI_COLUMN_MAPPING, stripped)
         THEN EntryOf(MWI_COLUMN_MAPPING, stripped)
         ELSE IF InTable(REFUGE_SURVEY_MAPPING, stripped)
         THEN EntryOf(REFUGE_SURVEY_MAPPING, stripped)
         ELSE None

\* C11 witness: a label that the synonym table and a source-specific table
\* both contain, with different entries, was resolved.
C11_TablesDisagree ==
  /\ resolved # <<>>
  /\ InTable(SPECIES_ALIASES, Lower(Strip(label)))
  /\ \E t \in {MWI_COLUMN_MAPPING, REFUGE_SURVEY_MAPPING} :
       /\ InTable(t, Strip(label))
       /\ EntryOf(t, Strip(label)) # EntryOf(SPECIES_ALIASES, Lower(Strip(label)))

\* C12: no parser or extractor lets an exception out on malformed input:
\* every parse ends with a returned value (a list of records, empty on
\* failure), never with an exception propagating to the caller.
C12_NoParserRaises == parsed # "raised"

IsRangeExpr(e) == e.shape \in {"range", "multi"}

\* C14: parse_agfc_date resolves a date range to its later date: for a text
\* whose date expression is "<Month> D1-D2, YYYY" ("January 19-23, 2026",
\* written with a hyphen or an en dash) or "Dec. 10, 15-23, 2025", and whose
\* last day D2 exists in that month, the record's survey_date is YYYY-MM-D2.
C14_RangeResolvesToLaterDate ==
  (/\ parsed = "yes" /\ doc.fmt = "agfc_pdf" /\ doc.readable /\ doc.text_len >= 100
   /\ Len(doc.dates) = 1 /\ IsRangeExpr(doc.dates[1])
   /\ ValidDate(doc.dates[1].y, doc.dates[1].m, doc.dates[1].days[Len(doc.dates[1].days)])
   /\ doc.mentions # <<>> /\ doc.mentions[1].lead = "estimated")
  => /\ results # <<>>
     /\ results[1].survey_date =
          strftime(doc.dates[1].y, doc.dates[1].m,
                   doc.dates[1].days[Len(doc.dates[1].days)])

\* The display names the LDWF table is read for
LdwfTracked == {LDWF_SPECIES_MAP[i].v : i \in DOMAIN LDWF_SPECIES_MAP} \ {<<>>}

LdwfKeysOf(name) ==
  {LDWF_SPECIES_MAP[i].k : i \in {j \in DOMAIN LDWF_SPECIES_MAP : LDWF_SPECIES_MAP[j].v = name}}

\* The numbers of the row that line i closes for the species, in either row
\* order: the line before a line that is the label alone, or what follows
\* the label on its own line; <<>> when line i is no row of the species.
LdwfRowNumbers(lines, i, name) ==
  LET line == Upper(Strip(lines[i]))
  IN IF line \in LdwfKeysOf(name)
     THEN (IF i = 1 THEN <<>> ELSE FindNumbers(lines[i - 1]))
     ELSE IF \E k \in LdwfKeysOf(name) : StartsWith(line, k \o <<" ">>)
          THEN FindNumbers(SubSeq(line, Len(CHOOSE k \in LdwfKeysOf(name) :
                                             StartsWith(line, k \o <<" ">>)) + 1,
                                  Len(line)))
     ELSE <<>>

\* The last numeric value of a line's numbers, 0 when there is none
LdwfLastValue(numbers) ==
  IF numbers = <<>> \/ parse_count_value(numbers[Len(numbers)]) = <<>> THEN 0
  ELSE parse_count_value(numbers[Len(numbers)])[1]

\* C15: in the LDWF parser the value kept for a tracked species is the last
\* numeric value of the line that holds its numbers, in both row orders (a
\* numbers line followed by the label line, and the label followed by its
\* numbers); no earlier (regional) value of that line is kept, and a species
\* without a row with a positive last value has no entry.
C15_LastNumberIsKept ==
  (parsed = "yes" /\ doc.fmt = "ldwf_pdf" /\ doc.readable /\ doc.text_len >= 100
   /\ doc.date # <<>> /\ ValidDate(doc.date[1].y, doc.date[1].m, doc.date[1].d))
  => \A name \in LdwfTracked :
       LET lines == LdwfLines(doc)
           rows == {i \in DOMAIN lines :
                      LdwfLastValue(LdwfRowNumbers(lines, i, name)) > 0}
           last == CHOOSE i \in rows : \A j \in rows : j <= i
           kept == IF results = <<>> THEN <<>>
                   ELSE SelectSeq(results[1].species_counts, LAMBDA e : e.name = name)
       IN IF rows = {} THEN kept = <<>>
          ELSE /\ Len(kept) = 1
               /\ kept[1].count = LdwfLastValue(LdwfRowNumbers(lines, last, name))

\* C15 witness: "2,000 2,000 2,000 6,000" then "MALLARD" gave Mallard 6000,
\* and a row with its label first gave the last number of its line.
C15_BothRowOrdersParsed ==
  /\ parsed = "yes" /\ doc.fmt = "ldwf_pdf" /\ results # <<>>
  /\ Len(doc.lines) = 3
  /\ doc.lines[1] = <<"2",",","0","0","0"," ","2",",","0","0","0"," ","2",",","0","0","0"," ","6",",","0","0","0">>
  /\ doc.lines[2] = <<"M","A","L","L","A","R","D">>
  /\ doc.lines[3] = <<"G","W"," ","T","E","A","L"," ","1",",","0","0","0"," ","*","*"," ","3",",","0","0","0">>
  /\ results[1].species_counts =
       << [name |-> Mallard, count |-> 6000],
          [name |-> <<"G","r","e","e","n","-","w","i","n","g","e","d"," ","T","e","a","l">>, count |-> 3000] >>

\* The species rows of the table: not blank, not a header, not a summary row
CcSpeciesRows(rows) ==
  {i \in DOMAIN rows :
     /\ rows[i] # <<>> /\ rows[i][1] # <<>>
     /\ ~IsHeaderRow(rows[i]) /\ ~is_skip_row(rows[i][1])
     /\ StripCode(rows[i][1]) # <<>>}

\* The display names whose cell in date column c holds a positive count
CcPositiveNames(rows, c) ==
  {StripCode(rows[i][1]) :
     i \in {j \in CcSpeciesRows(rows) :
              /\ Len(rows[j]) > c
              /\ parse_count_value(rows[j][c + 1]) # <<>>
              /\ parse_count_value(rows[j][c + 1])[1] > 0}}

\* C16: the wide-table parser emits exactly one record per header column that
\* parses as a date and has a species with a positive count; the record of a
\* column holds exactly the species whose cell in that column is positive,
\* each with a positive count, and a column whose header is no date or whose
\* cells are all zero or blank has no record.
C16_OneRecordPerDateColumn ==
  (parsed = "yes" /\ doc.fmt = "clarence_cannon_html") =>
    LET date_columns == DateColumns(doc.rows)
        cols == {c \in DOMAIN date_columns :
                   date_columns[c] # <<>> /\ CcPositiveNames(doc.rows, c) # {}}
    IN /\ Len(results) = Cardinality(cols)
       /\ \A c \in cols :
            \E k \in DOMAIN results :
              /\ results[k].survey_date = date_columns[c]
              /\ {results[k].species_counts[n].name :
                    n \in DOMAIN results[k].species_counts}
                   = CcPositiveNames(doc.rows, c)
              /\ \A n \in DOMAIN results[k].species_counts :
                   results[k].species_counts[n].count > 0

(***************************************************************************)
(* RefugeCountsScraper._handle_pdf_url_list (and the spider's              *)
(* parse_pdf_url_list, which has the same loop): the candidate URLs are     *)
(* tried in order, each with a HEAD request and, when the answer allows     *)
(* it, a download.  The network's answers are chosen freely.                *)
(***************************************************************************)
MaxUrls == 3

\* The candidate lists: distinct URLs, as generate_ldwf_urls builds them
UrlLists == {[i \in 1..n |-> i] : n \in 0..MaxUrls}

\* What req.head can do: raise, or answer with a status and a Content-Length
\* header that is absent, a number, or not a number.
HeadAnswers ==
  {[outcome |-> "raises", status |-> 0, header |-> "absent", length |-> 0]}
  \cup {[outcome |-> "response", status |-> st, header |-> "absent", length |-> 0] :
          st \in {200, 404}}
  \cup {[outcome |-> "response", status |-> st, header |-> "number", length |-> n] :
          st \in {200, 404}, n \in {4999, 5000}}
  \cup {[outcome |-> "response", status |-> 200, header |-> "not_a_number", length |-> 0]}

\* What the download and the parser can do: req.get raises, answers without
\* 200 or with an empty body (_download_pdf gives None), or answers with a
\* body the parser rejects, accepts or raises on.
GetAnswers ==
  {[outcome |-> "raises", status |-> 0, parse |-> "not_called"],
   [outcome |-> "response", status |-> 404, parse |-> "not_called"],
   [outcome |-> "empty_body", status |-> 200, parse |-> "not_called"],
   [outcome |-> "response", status |-> 200, parse |-> "none"],
   [outcome |-> "response", status |-> 200, parse |-> "raises"],
   [outcome |-> "response", status |-> 200, parse |-> "result"]}

\* A probe that drops through to the download
ProbeOkAnyLength(head) == head.outcome = "response" /\ head.status = 200

\* The tests between req.head and the download: no exception, status 200,
\* int(headers.get("Content-Length", 0)) readable and at least 5000
ProbeOk(head) ==
  /\ head.outcome = "response" /\ head.status = 200
  /\ head.header # "not_a_number"
  /\ (IF head.header = "absent" THEN 0 ELSE head.length) >= 5000

StartPdfUrlList ==
  /\ probe_pc = "idle"
  /\ pdf_urls' \in UrlLists
  /\ url_idx' = 1 /\ probe_pc' = "head"
  /\ net_log' = <<>> /\ pdf_items' = <<>>
  /\ UNCHANGED <<scriptVars, storeVars, runVars, parseVars, resolveVars, mainVars>>

\* req.head(pdf_url) and the tests on its answer; "continue" and the except
\* clause both lead to the next candidate.
HeadProbe ==
  /\ probe_pc = "head" /\ url_idx <= Len(pdf_urls)
  /\ \E head \in HeadAnswers :
       /\ net_log' = Append(net_log, [method |-> "HEAD", url |-> pdf_urls[url_idx],
                                     answer |-> head])
       /\ IF ProbeOk(head)
          THEN probe_pc' = "get" /\ url_idx' = url_idx
          ELSE probe_pc' = "head" /\ url_idx' = url_idx + 1
  /\ UNCHANGED <<scriptVars, pdf_urls, pdf_items, storeVars, runVars, parseVars, resolveVars,
                 mainVars>>

\* self._download_pdf(pdf_url), parser_fn(pdf_bytes) and items.append
DownloadAndParse ==
  /\ probe_pc = "get"
  /\ \E get \in GetAnswers :
       /\ net_log' = Append(net_log, [method |-> "GET", url |-> pdf_urls[url_idx],
                                     answer |-> get])
       /\ pdf_items' = IF get.parse = "result"
                       THEN Append(pdf_items, [source_url |-> pdf_urls[url_idx]])
                       ELSE pdf_items
  /\ probe_pc' = "head" /\ url_idx' = url_idx + 1
  /\ UNCHANGED <<scriptVars, pdf_urls, storeVars, runVars, parseVars, resolveVars, mainVars>>

\* return items
ReturnPdfItems ==
  /\ probe_pc = "head" /\ url_idx > Len(pdf_urls)
  /\ probe_pc' = "returned"
  /\ UNCHANGED <<scriptVars, pdf_urls, url_idx, net_log, pdf_items, storeVars, runVars,
                 parseVars, resolveVars, mainVars>>

InitProbe ==
  IdleStore /\ IdleRun /\ IdleParse /\ IdleResolve /\ IdleProbe /\ IdleMain /\ IdleScripts

NextProbe == StartPdfUrlList \/ HeadProbe \/ DownloadAndParse \/ ReturnPdfItems

SpecProbe == InitProbe /\ [][NextProbe]_vars

\* A HEAD answer with status 200 and a Content-Length of 5000 or more
GoodProbe(entry) ==
  /\ entry.method = "HEAD"
  /\ entry.answer.outcome = "response" /\ entry.answer.status = 200
  /\ entry.answer.header = "number" /\ entry.answer.length >= 5000

\* C17: in candidate-URL handling a GET of a URL is issued only right after
\* a HEAD probe of that URL answered 200 with a Content-Length of at least
\* 5000; a candidate whose probe failed, was too small or raised is never
\* fetched; and when the handler returns every candidate has been probed.
C17_GetOnlyAfterGoodProbe ==
  /\ \A i \in DOMAIN net_log :
       net_log[i].method = "GET" =>
         /\ i > 1
         /\ GoodProbe(net_log[i - 1])
         /\ net_log[i - 1].url = net_log[i].url
  /\ \A i \in DOMAIN net_log :
       net_log[i].method = "HEAD" /\ ~GoodProbe(net_log[i]) =>
         \A j \in DOMAIN net_log :
           ~(net_log[j].method = "GET" /\ net_log[j].url = net_log[i].url)
  /\ probe_pc = "returned" =>
       \A k \in DOMAIN pdf_urls :
         \E i \in DOMAIN net_log :
           net_log[i].method = "HEAD" /\ net_log[i].url = pdf_urls[k]

\* C17 witness: the handler returned after a first probe that raised, a
\* second that was too small and a third that was followed by its download.
C17_DownloadAfterFailedProbes ==
  /\ probe_pc = "returned" /\ Len(net_log) = 4
  /\ net_log[1].answer.outcome = "raises"
  /\ net_log[2].answer.status = 200 /\ net_log[2].answer.length = 4999
  /\ net_log[3].method = "HEAD" /\ net_log[4].method = "GET"
  /\ net_log[4].url = pdf_urls[3]

\* The date expression a text's patterns select: the match of the first
\* pattern, in priority order, that matches at all (0 when none does).
FwsSelected(dates) ==
  LET ps == {p \in DOMAIN DATE_PATTERNS : PatternSearch(p, dates) # 0}
  IN IF ps = {} THEN 0
     ELSE PatternSearch(CHOOSE p \in ps : \A q \in ps : p <= q, dates)

AgfcSelected(dates) ==
  LET ps == {p \in DOMAIN AGFC_DATE_PATTERNS : AgfcPatternSearch(p, dates) # 0}
  IN IF ps = {} THEN 0
     ELSE AgfcPatternSearch(CHOOSE p \in ps : \A q \in ps : p <= q, dates)

\* C18: a date expression that fails strict calendar construction invalidates
\* the whole record: when the expression selected for a document (the match
\* of the highest-priority date pattern; for Loess Bluffs the last column
\* date, or the header date without column dates) is not a calendar date,
\* the parser returns failure, and no record with a date taken from another
\* expression of the document.
C18_InvalidDateInvalidatesRecord ==
  parsed = "yes" =>
    /\ doc.fmt \in {"fws_refuge_page", "fws_story_page"} =>
         LET i == FwsSelected(doc.page.dates)
             e == doc.page.dates[i]
         IN (i # 0 /\ ~ValidDate(e.y, e.m, e.d)) => results = <<>>
    /\ doc.fmt = "agfc_pdf" =>
         LET i == AgfcSelected(doc.dates)
             e == doc.dates[i]
         IN (i # 0 /\ ~ValidDate(e.y, e.m, e.days[Len(e.days)])) => results = <<>>
    /\ doc.fmt = "loess_bluffs_pdf" =>
         LET last == LastUnique(doc.column_dates)
             invalid == IF doc.column_dates # <<>>
                        THEN ~ValidDate(last[3], last[1], last[2])
                        ELSE /\ doc.header_date # <<>>
                             /\ ~ValidDate(doc.header_date[1], doc.header_date[2],
                                           doc.header_date[3])
         IN invalid => results = <<>>

\* C19: the LLM-backed extractor returns a record only for a model output in
\* which every species name is a known label (one resolve_species_slug
\* knows), every count is a non-negative integer and the date is a calendar
\* date written YYYY-MM-DD; an output that fails one of these is discarded,
\* not repaired into a record.
C19_OnlyValidatedOutputAccepted ==
  (parsed = "yes" /\ doc.fmt = "llm_pdf" /\ results # <<>>) =>
    LET data == doc.reply.data
    IN /\ \A i \in DOMAIN data.species_counts :
            /\ resolve_species_slug(data.species_counts[i].name) # None
            /\ data.species_counts[i].count.k = "int"
            /\ data.species_counts[i].count.n >= 0
       /\ data.survey_date.k = "str"
       /\ IsIsoDate(data.survey_date.s)

(***************************************************************************)
(* scrapers/run.py: main().  The command line names a spider; argparse      *)
(* rejects a name outside SPIDERS, and the chosen runner's call is wrapped   *)
(* in try/except.  run_refuge_counts runs RefugeCountsScraper.run as        *)
(* modelled above; StateRegulationsScraper.run either returns or raises.    *)
(***************************************************************************)
SPIDERS == {"refuge_counts", "state_regulations"}

\* The spider arguments tried: the two spiders and a name that is none
SpiderArgs == SPIDERS \cup {"bogus"}

\* parser.parse_args(): parser.error ends the process with status 2 when the
\* spider is not one of the choices.
MainParseArgs ==
  /\ main_pc = "idle"
  /\ \E name \in SpiderArgs :
       /\ spider' = name
       /\ IF name \in SPIDERS
          THEN main_pc' = "running" /\ exit_code' = <<>>
          ELSE main_pc' = "exited" /\ exit_code' = <<2>>
  /\ UNCHANGED <<scriptVars, storeVars, runVars, parseVars, resolveVars, probeVars>>

\* run_refuge_counts(args): scraper.run(...), step by step
RunRefugeCounts ==
  /\ main_pc = "running" /\ spider = "refuge_counts"
  /\ \/ pc = "idle" /\ Start
     \/ Handle
     \/ Store
     \/ FinishRun

\* run_state_regulations(args): scraper.run(...) returns or raises
RunStateRegulations ==
  /\ main_pc = "running" /\ spider = "state_regulations" /\ pc = "idle"
  /\ pc' \in {"returned", "raised"}
  /\ UNCHANGED <<scriptVars, storeVars, dry_run, conn, location_map, sources, src_idx, items,
                 all_items, attempted, handled, store_calls, parseVars,
                 resolveVars, probeVars, mainVars>>

\* sys.exit(exit_code) with the runner's 0, or sys.exit(1) in the except
\* clause
MainExit ==
  /\ main_pc = "running" /\ pc \in {"returned", "raised"}
  /\ exit_code' = IF pc = "returned" THEN <<0>> ELSE <<1>>
  /\ main_pc' = "exited"
  /\ UNCHANGED <<scriptVars, spider, storeVars, runVars, parseVars, resolveVars, probeVars>>

InitMain ==
  IdleStore /\ IdleRun /\ IdleParse /\ IdleResolve /\ IdleProbe /\ IdleMain /\ IdleScripts

NextMain == MainParseArgs \/ RunRefugeCounts \/ RunStateRegulations \/ MainExit

SpecMain == InitMain /\ [][NextMain]_vars

\* C20: the runner exits with status 0 whenever the selected scraper
\* completes (also with no item found), and with status 1 when the spider
\* name is unknown or an exception leaves the scraper.
C20_ExitCodes ==
  exit_code # <<>> =>
    exit_code[1] = IF spider \in SPIDERS /\ pc = "returned" THEN 0 ELSE 1

\* The priority of a kind of date expression: the labeled "DATE:" field first,
\* then prose month-day-year, then the bare slash date.
KindRank(kind) ==
  CASE kind = "labeled" -> 1 [] kind = "prose" -> 2 [] kind = "slash" -> 3

\* The first expression, in text order, of the highest-priority kind present.
HighestPriority(dates) ==
  CHOOSE i \in DOMAIN dates :
    /\ \A j \in DOMAIN dates : KindRank(dates[i].kind) <= KindRank(dates[j].kind)
    /\ \A j \in 1..(i - 1) : dates[j].kind # dates[i].kind

RECURSIVE MallardMentionSum(_)
MallardMentionSum(mentions) ==
  IF mentions = <<>> THEN 0
  ELSE LET val == parse_count_value(Head(mentions).count)
       IN (IF Head(mentions).what = "mallards" /\ val # <<>> /\ val[1] > 1000
           THEN val[1] ELSE 0)
          + MallardMentionSum(Tail(mentions))

\* C22: in the AGFC narrative parser the Mallard count equals the sum of the
\* regional mallard counts mentioned on page 1, each mention contributing
\* exactly once, counting only the mentions whose value exceeds 1000.
C22_MallardIsSumOfMentions ==
  (parsed = "yes" /\ doc.fmt = "agfc_pdf") =>
    \A i \in DOMAIN results :
      \A k \in DOMAIN results[i].species_counts :
        results[i].species_counts[k].name = Mallard =>
          results[i].species_counts[k].count = MallardMentionSum(doc.mentions)

\* The slug a species row of the sheet counts for: None for a row without a
\* name, an aggregate row and a name no table knows.
TpwdRowSlug(row) ==
  IF is_blank(row[2]) THEN None
  ELSE LET raw == Strip(CellStr(row[2]))
       IN IF raw = <<>> \/ IsAggregateLabel(raw) \/ Lower(raw) \in TPWD_SKIP_NAMES
          THEN None
          ELSE resolve_species_slug(raw)

\* The positive count of cell (r, c) when row r counts for the slug and
\* column c is headed by the year, and 0 otherwise.
TpwdCellGain(df, r, c, year, slug) ==
  LET count == parse_count(df[r][c])
  IN IF /\ TpwdRowSlug(df[r]) = slug
        /\ YearOfCol(df[3], c) = <<year>>
        /\ count # <<>> /\ count[1] > 0
     THEN count[1] ELSE 0

\* The sum of the gains of the cells of the species rows, cell k standing in
\* row 4 + (k - 1) \div width and column 1 + (k - 1) % width.
RECURSIVE TpwdYearSum(_, _, _, _)
TpwdYearSum(df, year, slug, k) ==
  LET width == Len(df[3])
  IN IF k > (Len(df) - 3) * width THEN 0
     ELSE TpwdCellGain(df, 4 + ((k - 1) \div width), 1 + ((k - 1) % width), year, slug)
          + TpwdYearSum(df, year, slug, k + 1)

TpwdSlugs(df) == {TpwdRowSlug(df[r]) : r \in 4..Len(df)} \ {None}

TpwdYears(df) ==
  {y \in 1990..2030 : \E c \in DOMAIN df[3] : YearOfCol(df[3], c) = <<y>>}

\* C23: for the multi-year layout the parser returns one record per discovered
\* year (a header value in 1990..2030) that has at least one positive count,
\* in ascending year order; in each record the count of a slug equals the sum
\* of the positive counts of all non-aggregate rows that resolve to that slug
\* in the columns of that year.
C23_OneRecordPerYearWithSums ==
  (parsed = "yes" /\ doc.fmt = "tpwd_excel" /\ doc.read_ok /\ Len(doc.rows) >= 3) =>
    LET df == doc.rows
        live == {y \in TpwdYears(df) :
                   \E s \in TpwdSlugs(df) : TpwdYearSum(df, y, s, 1) > 0}
    IN /\ Len(results) = Cardinality(live)
       /\ \A y \in live : \E i \in DOMAIN results : results[i].survey_date = YearDate(y)
       /\ \A i \in DOMAIN results : \A j \in DOMAIN results :
            i < j => IsoKey(results[i].survey_date) < IsoKey(results[j].survey_date)
       /\ \A i \in DOMAIN results : \A y \in live :
            results[i].survey_date = YearDate(y) =>
              /\ \A s \in TpwdSlugs(df) :
                   CountOf(results[i].species_counts, s) = TpwdYearSum(df, y, s, 1)
              /\ \A k \in DOMAIN results[i].species_counts :
                   /\ results[i].species_counts[k].name \in TpwdSlugs(df)
                   /\ results[i].species_counts[k].count > 0

\* A sheet whose year columns stand in descending order and hold two rows of
\* one slug, parsed to two records, the first of which sums the two rows.
C23_TwoRowsOfOneSlugSummed ==
  /\ parsed = "yes" /\ doc.fmt = "tpwd_excel" /\ Len(doc.rows) = 5
  /\ doc.rows[3][3] = JInt(2018) /\ doc.rows[3][4] = JInt(2017)
  /\ doc.rows[4][2] # doc.rows[5][2]
  /\ TpwdRowSlug(doc.rows[4]) # None
  /\ TpwdRowSlug(doc.rows[4]) = TpwdRowSlug(doc.rows[5])
  /\ Len(results) = 2
  /\ results[1].survey_date = YearDate(2017)
  /\ CountOf(results[1].species_counts, TpwdRowSlug(doc.rows[4])) = 10
  /\ CountOf(results[2].species_counts, TpwdRowSlug(doc.rows[4])) = 10

\* The LDWF page holds two rows of the species whose last values differ.
LdwfConflict(lines, name) ==
  \E i \in DOMAIN lines : \E j \in DOMAIN lines :
    /\ i < j
    /\ LdwfRowNumbers(lines, i, name) # <<>>
    /\ LdwfRowNumbers(lines, j, name) # <<>>
    /\ LdwfLastValue(LdwfRowNumbers(lines, i, name))
         # LdwfLastValue(LdwfRowNumbers(lines, j, name))

\* The table holds two rows of the species whose counts in date column c
\* differ.
CcConflict(rows, c, name) ==
  \E i \in CcSpeciesRows(rows) : \E j \in CcSpeciesRows(rows) :
    /\ i < j
    /\ StripCode(rows[i][1]) = name /\ StripCode(rows[j][1]) = name
    /\ Len(rows[i]) > c /\ Len(rows[j]) > c
    /\ parse_count_value(rows[i][c + 1]) # <<>>
    /\ parse_count_value(rows[j][c + 1]) # <<>>
    /\ parse_count_value(rows[i][c + 1]) # parse_count_value(rows[j][c + 1])

\* C24: when one document contains two rows for the same species with
\* different counts, the species value (or the record) is rejected: no record
\* the parser returns for that page (for that date column of the table) has
\* an entry for the species.
C24_ConflictingRowsRejected ==
  /\ (parsed = "yes" /\ doc.fmt = "ldwf_pdf") =>
       \A name \in LdwfTracked :
         LdwfConflict(LdwfLines(doc), name) =>
           \A i \in DOMAIN results :
             \A k \in DOMAIN results[i].species_counts :
               results[i].species_counts[k].name # name
  /\ (parsed = "yes" /\ doc.fmt = "clarence_cannon_html") =>
       LET date_columns == DateColumns(doc.rows)
       IN \A c \in DOMAIN date_columns :
            \A r \in CcSpeciesRows(doc.rows) :
              (date_columns[c] # <<>> /\ CcConflict(doc.rows, c, StripCode(doc.rows[r][1]))) =>
                \A i \in DOMAIN results :
                  results[i].survey_date = date_columns[c] =>
                    \A k \in DOMAIN results[i].species_counts :
                      results[i].species_counts[k].name # StripCode(doc.rows[r][1])

(***************************************************************************)
(* extract_regulations.py: the regulation-extraction batch.  main() opens   *)
(* one connection and calls process_state for every requested state;       *)
(* process_state loads the state's documents, has the seasons extracted    *)
(* and validated, reconnects and writes them with upsert_seasons.  A        *)
(* season is a JSON object: its name is a text ("" when missing), its     *)
(* dates are JSON values and its daily bag limit is <<>> or <<n>>.  The    *)
(* table seasons is kept for the one year of the run.                      *)
(***************************************************************************)
V1_STATES == <<"TX", "AR", "NM", "LA", "KS", "OK">>

MaxStates == 3

Season(name, start_date, end_date, bag_daily) ==
  [name |-> name, start_date |-> start_date, end_date |-> end_date,
   bag_daily |-> bag_daily]

\* s.get("start_date") is truthy
Truthy(v) == ~Falsy(v)

\* year * 10000 + month * 100 + day of a text strptime accepts
YmdKey(s) ==
  LET parts == SplitOn(s, "-")
  IN IntOfDigits(parts[1]) * 10000 + IntOfDigits(parts[2]) * 100
       + IntOfDigits(parts[3])

\* validate_season(s): "ok" for True, "reject" for False, and "raise" when
\* strptime is handed a value that is not a text (TypeError is not caught)
validate_season(s) ==
  IF s.name = <<>> THEN "reject"
  ELSE IF Truthy(s.start_date) /\ Truthy(s.end_date)
            /\ (s.start_date.k # "str" \/ s.end_date.k # "str")
       THEN "raise"
  ELSE IF Truthy(s.start_date) /\ Truthy(s.end_date)
            /\ ~(StrptimeYmdAccepts(s.start_date.s) /\ StrptimeYmdAccepts(s.end_date.s))
       THEN "reject"
  ELSE IF Truthy(s.start_date) /\ Truthy(s.end_date)
            /\ YmdKey(s.start_date.s) >= YmdKey(s.end_date.s)
       THEN "reject"
  ELSE IF s.bag_daily # <<>> /\ s.bag_daily[1] < 0 THEN "reject"
  ELSE "ok"

\* "Deduplicate by name": the first season of every lower-cased, stripped name
DedupeByName(all_seasons) ==
  LET key(i) == Strip(Lower(all_seasons[i].name))
      first == {i \in DOMAIN all_seasons : \A j \in 1..(i - 1) : key(j) # key(i)}
      F[i \in 0..Len(all_seasons)] ==
        IF i = 0 THEN <<>>
        ELSE IF i \in first THEN Append(F[i - 1], all_seasons[i]) ELSE F[i - 1]
  IN F[Len(all_seasons)]

\* The pre-check sum(1 for s in seasons if s.get("start_date") and s.get("end_date"))
ValidCount(list) ==
  Cardinality({i \in DOMAIN list : Truthy(list[i].start_date) /\ Truthy(list[i].end_date)})

\* The seasons the loop of upsert_seasons reaches cur.execute(INSERT) for:
\* those whose two dates strptime parses
Insertable(list) ==
  SelectSeq(list, LAMBDA s :
    /\ Truthy(s.start_date) /\ s.start_date.k = "str" /\ StrptimeYmdAccepts(s.start_date.s)
    /\ Truthy(s.end_date) /\ s.end_date.k = "str" /\ StrptimeYmdAccepts(s.end_date.s))

\* The pre-check left out: the rows are deleted whatever the list holds.
upsert_seasons_always_deletes(rows, list, db_raises) ==
  IF db_raises /\ Insertable(list) # <<>> THEN [raised |-> TRUE, rows |-> rows]
  ELSE [raised |-> FALSE,
        rows |-> {Insertable(list)[i].name : i \in DOMAIN Insertable(list)}]

\* upsert_seasons(conn, state_id, seasons, species_map, year, source_url) on
\* the committed rows of (state, year): the rows committed after the call,
\* and whether an exception left it.  An INSERT the database refuses raises
\* before conn.commit(), so the DELETE of the same transaction is not
\* committed either.
upsert_seasons(rows, list, db_raises) ==
  IF ValidCount(list) = 0 /\ Cardinality(rows) > 0
  THEN [raised |-> FALSE, rows |-> rows]
  ELSE IF db_raises /\ Insertable(list) # <<>> THEN [raised |-> TRUE, rows |-> rows]
  ELSE [raised |-> FALSE,
        rows |-> {Insertable(list)[i].name : i \in DOMAIN Insertable(list)}]

\* The part of process_state between load_documents and the dry-run test, for
\* the seasons the extractor returned: whether validate_season raises, and
\* deduped_seasons otherwise.
PrepareSeasons(extracted) ==
  IF \E i \in DOMAIN extracted : validate_season(extracted[i]) = "raise"
  THEN [raised |-> TRUE, deduped_seasons |-> <<>>]
  ELSE [raised |-> FALSE,
        deduped_seasons |->
          DedupeByName(SelectSeq(extracted, LAMBDA s : validate_season(s) = "ok"))]

\* process_state(conn, state_code, model, dry_run, year) called with main's
\* connection in state c, on the committed rows of the state.  has_docs: the
\* state has documents; prep: PrepareSeasons of what the extractor returned
\* for them; fault: "connect" when psycopg2.connect fails, "insert" when the
\* database refuses an INSERT.
\*   conn: main's connection afterwards (process_state closes the object it
\*         was given before it reconnects into its own local variable);
\*   raised: an exception left process_state.
process_state(c, rows, has_docs, prep, fault) ==
  LET out(conn_after, raised, rows_after, wrote) ==
        [conn |-> conn_after, raised |-> raised, rows |-> rows_after,
         wrote |-> wrote]
  IN IF c = "closed" THEN out(c, TRUE, rows, FALSE)            \* load_documents
     ELSE IF ~has_docs THEN out(c, FALSE, rows, FALSE)
     ELSE IF prep.raised THEN out(c, TRUE, rows, FALSE)
     ELSE IF xr_dry_run THEN out(c, FALSE, rows, FALSE)
     ELSE IF fault = "connect" THEN out("closed", TRUE, rows, FALSE)
     ELSE IF prep.deduped_seasons = <<>> THEN out("closed", FALSE, rows, FALSE)
     ELSE CHOOSE o \in {out("closed", up.raised, up.rows, ~up.raised) :
                          up \in {upsert_seasons(rows, prep.deduped_seasons,
                                                 fault = "insert")}} : TRUE

Duck == <<"D","u","c","k">>
OldSeason == <<"O","l","d">>
OpenDay == JStr(<<"2","0","2","4","-","1","1","-","0","5">>)
CloseDay == JStr(<<"2","0","2","5","-","0","1","-","2","6">>)

\* A season with both dates, the same under another spelling of its name, a
\* season without dates, one with dates in another format, one whose start
\* date is a number, one whose dates are reversed and one with a negative
\* bag limit.
SeasonPool ==
  { Season(Duck, OpenDay, CloseDay, <<6>>),
    Season(<<"d","u","c","k"," ">>, OpenDay, CloseDay, <<>>),
    Season(<<"T","e","a","l">>, JNull, JNull, <<>>),
    Season(<<"D","o","v","e">>, JStr(<<"1","1","/","0","5","/","2","0","2","4">>),
           JStr(<<"0","1","/","2","6","/","2","0","2","5">>), <<>>),
    Season(<<"G","o","o","s","e">>, JInt(20241105), CloseDay, <<>>),
    Season(<<"C","o","o","t">>, CloseDay, OpenDay, <<>>),
    Season(<<"S","w","a","n">>, OpenDay, CloseDay, <<0 - 1>>) }

ExtractedLists == SeqsUpTo(SeasonPool, 2)

\* states_to_process: one state (--state) or the leading states of V1_STATES
StateLists ==
  {<<V1_STATES[i]>> : i \in 1..MaxStates} \cup {SubSeq(V1_STATES, 1, MaxStates)}

\* main() up to the loop: the arguments, psycopg2.connect(db_url)
StartExtract ==
  /\ xr_pc = "idle"
  /\ xr_pc' = "loop"
  /\ xr_dry_run' \in BOOLEAN
  /\ xr_states' \in StateLists
  /\ xr_idx' = 1
  /\ xr_conn' = "open"
  /\ UNCHANGED <<seasons, xr_log, storeVars, runVars, parseVars, resolveVars,
                 probeVars, mainVars, ingestVars, crawlVars>>

\* PrepareSeasons of every list the extractor may return
Prepared == [l \in ExtractedLists |-> PrepareSeasons(l)]

\* One iteration of the loop of main(): process_state, and the except clause
\* with its conn.rollback(), which raises on a closed connection.
ProcessState ==
  /\ xr_pc = "loop" /\ xr_idx <= Len(xr_states)
  /\ \E has_docs \in BOOLEAN, extracted \in ExtractedLists,
        fault \in {"none", "connect", "insert"} :
       \E r \in {process_state(xr_conn, seasons[xr_states[xr_idx]], has_docs,
                              Prepared[extracted], fault)} :
          /\ seasons' = [seasons EXCEPT ![xr_states[xr_idx]] = r.rows]
          /\ xr_conn' = r.conn
          /\ xr_log' = Append(xr_log,
               [state |-> xr_states[xr_idx], conn |-> xr_conn, raised |-> r.raised,
                existing |-> Cardinality(seasons[xr_states[xr_idx]]),
                wrote |-> r.wrote,
                offered |-> IF has_docs
                            THEN Len(Prepared[extracted].deduped_seasons) ELSE 0,
                valid_count |-> IF has_docs
                                THEN ValidCount(Prepared[extracted].deduped_seasons)
                                ELSE 0])
          /\ IF r.raised /\ r.conn = "closed"
             THEN xr_pc' = "raised" /\ xr_idx' = xr_idx
             ELSE xr_pc' = "loop" /\ xr_idx' = xr_idx + 1
  /\ UNCHANGED <<xr_dry_run, xr_states, storeVars, runVars, parseVars,
                 resolveVars, probeVars, mainVars, ingestVars, crawlVars>>

\* The end of the loop: conn.close() and "Extraction complete!"
FinishExtract ==
  /\ xr_pc = "loop" /\ xr_idx > Len(xr_states)
  /\ xr_pc' = "returned"
  /\ xr_conn' = "closed"
  /\ UNCHANGED <<xr_dry_run, xr_states, xr_idx, seasons, xr_log, storeVars,
                 runVars, parseVars, resolveVars, probeVars, mainVars,
                 ingestVars, crawlVars>>

\* The batch starts on a table in which every state has no season of the
\* year or the one written by an earlier run.
InitExtract ==
  /\ IdleStore /\ IdleRun /\ IdleParse /\ IdleResolve /\ IdleProbe /\ IdleMain
  /\ IdleIngest /\ IdleCrawl
  /\ xr_pc = "idle" /\ xr_dry_run = FALSE /\ xr_states = <<>> /\ xr_idx = 0
  /\ xr_conn = "closed" /\ xr_log = <<>>
  /\ seasons \in [{V1_STATES[i] : i \in 1..MaxStates} -> {{}, {OldSeason}}]

NextExtract == StartExtract \/ ProcessState \/ FinishExtract

SpecExtract == InitExtract /\ [][NextExtract]_vars

C29_EveryStateProcessed ==
  /\ xr_pc # "raised"
  /\ \A i \in DOMAIN xr_log : xr_log[i].conn = "open"
  /\ xr_pc = "returned" => Len(xr_log) = Len(xr_states)

\* C26: storing one refuge_count item is all-or-nothing: when the write of a
\* species (or the commit) raises, no row of the item is committed and the
\* rows committed by earlier items are unchanged, and no exception leaves
\* _process_refuge_count.
C26_StoreAllOrNothing ==
  [][/\ last_store'.status \in {"rolled_back", "raised"} =>
          refuge_counts' = refuge_counts
     /\ last_store'.status # "raised"]_vars

\* C27: on every path by which RefugeCountsScraper.run returns (normal
\* completion, all sources failing, a --source filter that matches no
\* source), any database connection opened by that run has been closed.
C27_ConnectionClosedOnReturn == pc = "returned" => conn # "open"

\* ---------------------------------------------------------------------
\* ingest_mwi.py: ingest_csv
\* ---------------------------------------------------------------------

\* V1_STATES of ingest_mwi.py, as the text of a CSV cell
MWI_V1_STATES ==
  {<<"T","X">>, <<"N","M">>, <<"A","R">>, <<"L","A">>, <<"K","S">>, <<"O","K">>}

\* total_rows % 10 == 0: the period of the commits inside the loop
CommitEvery == 10

MaxCsvRows == 10

\* parse_count of ingest_mwi.py: None for an empty or blank cell and for
\* text that int() refuses, else int(value.strip().replace(",", ""))
mwi_parse_count(value) ==
  IF value = <<>> \/ Strip(value) = <<>> THEN <<>>
  ELSE IF AllDigits(Remove(Strip(value), ","))
       THEN <<IntOfDigits(Remove(Strip(value), ","))>>
       ELSE <<>>

\* load_mappings: the statewide MWI locations and the species of the
\* database; a dry run has no connection and both maps are empty
LoadedLocations(dry) == IF dry THEN <<>> ELSE [s \in {<<"T","X">>} |-> "loc-tx"]

LoadedSpecies(dry) ==
  IF dry THEN <<>>
  ELSE [s \in {"mallard", "gadwall"} |-> IF s = "mallard" THEN "sp-1" ELSE "sp-2"]

\* column_species: the tracked columns in the order of MWI_COLUMN_MAPPING,
\* each with species_map.get(slug)
column_species ==
  [dry \in BOOLEAN |->
     LET tracked == SelectSeq(MWI_COLUMN_MAPPING, LAMBDA e : e.v # None)
     IN [i \in DOMAIN tracked |->
           [col |-> tracked[i].k, slug |-> tracked[i].v,
            species_id |-> IF tracked[i].v \in DOMAIN LoadedSpecies(dry)
                           THEN LoadedSpecies(dry)[tracked[i].v] ELSE None]]]

\* row.get(col_name, "")
RowGet(row, col_name) ==
  IF col_name \in DOMAIN row.cells THEN row.cells[col_name] ELSE <<>>

\* The loop over column_species for one row. st holds the committed rows,
\* the rows of the open transaction, the keys whose INSERT executed and the
\* counter inserted; faults are the columns whose INSERT raises. An INSERT
\* that raises is followed by conn.rollback(), which ends the transaction
\* and with it every row inserted since the last commit.
RECURSIVE InsertCounts(_, _, _, _, _, _, _)
InsertCounts(row, location_id, survey_date, dry, faults, i, st) ==
  IF i > Len(column_species[dry]) THEN st
  ELSE LET cs == column_species[dry][i]
           count == mwi_parse_count(RowGet(row, cs.col))
           key == <<location_id, cs.species_id, survey_date>>
           next ==
             IF cs.species_id = None THEN st
             ELSE IF count = <<>> \/ count = <<0>> THEN st
             ELSE IF dry THEN [st EXCEPT !.inserted = @ + 1]
             ELSE IF cs.col \in faults THEN [st EXCEPT !.txn = {}]
             ELSE [st EXCEPT
                     !.txn = IF key \in st.committed \cup st.txn
                             THEN @ ELSE @ \cup {key},
                     !.executed = @ \cup {key},
                     !.inserted = @ + 1]
       IN InsertCounts(row, location_id, survey_date, dry, faults, i + 1, next)

\* The columns of the CSV files of the model and the rows they may hold
CsvColumns == {<<"M","a","l","l","a","r","d">>, <<"G","a","d","w","a","l","l">>, <<"R","e","d","h","e","a","d">>}

CsvRow(year, state, mallard, gadwall, redhead) ==
  [Year |-> year, State |-> state,
   cells |-> [c \in CsvColumns |->
                IF c = <<"M","a","l","l","a","r","d">> THEN mallard
                ELSE IF c = <<"G","a","d","w","a","l","l">> THEN gadwall ELSE redhead]]

CsvRows ==
  {CsvRow(<<"2","0","2","0">>, <<"T","X">>, <<"1",",","2","0","0">>, <<" ","7"," ">>, <<"5">>),
   CsvRow(<<"2","0","2","0">>, <<"T","X">>, <<"0">>, <<"3","1">>, <<>>),
   CsvRow(<<"2","0","2","1">>, <<" ","T","X">>, <<"8","8">>, <<"n","/","a">>, <<>>),
   CsvRow(<<"2","0","2","1">>, <<"T","X">>, <<" ">>, <<"4">>, <<"5">>),
   CsvRow(<<"2","0","2","1">>, <<"O","K">>, <<"9">>, <<"4">>, <<>>),
   CsvRow(<<"2","0","2","1">>, <<"C","A">>, <<"9">>, <<"4">>, <<>>),
   CsvRow(<<>>, <<"T","X">>, <<"9">>, <<"4">>, <<>>)}

MwiKey(year, slug) ==
  <<"loc-tx", LoadedSpecies(FALSE)[slug], year \o <<"-","0","1","-","1","5">>>>

\* ingest_csv up to the loop: no DATABASE_URL outside a dry run returns at
\* once, else the connection is opened and the mappings are loaded
StartIngest ==
  /\ mw_pc = "idle"
  /\ \E db_url \in BOOLEAN, dry \in BOOLEAN :
       /\ mw_dry_run' = dry
       /\ mw_pc' = IF ~db_url /\ ~dry THEN "returned" ELSE "rows"
  /\ UNCHANGED <<mw_read, total_rows, inserted, mwi_counts, mw_txn, mw_executed,
                 storeVars, runVars, parseVars, resolveVars, probeVars, mainVars,
                 extractVars, crawlVars>>

\* One iteration of the loop over the rows of the CSV, with the commit that
\* follows every tenth processed row
IngestRow ==
  /\ mw_pc = "rows" /\ mw_read < MaxCsvRows
  /\ mw_read' = mw_read + 1
  /\ \E row \in CsvRows, faults \in SUBSET {<<"M","a","l","l","a","r","d">>, <<"G","a","d","w","a","l","l">>} :
       LET year == Strip(row.Year)
           state == Strip(row.State)
       IN IF year = <<>> \/ state = <<>> \/ state \notin MWI_V1_STATES
          THEN UNCHANGED <<total_rows, inserted, mwi_counts, mw_txn, mw_executed>>
          ELSE /\ total_rows' = total_rows + 1
               /\ IF state \notin DOMAIN LoadedLocations(mw_dry_run)
                  THEN UNCHANGED <<inserted, mwi_counts, mw_txn, mw_executed>>
                  ELSE \E st \in {InsertCounts(row, LoadedLocations(mw_dry_run)[state],
                                     year \o <<"-","0","1","-","1","5">>, mw_dry_run, faults, 1,
                                     [committed |-> mwi_counts, txn |-> mw_txn,
                                      executed |-> mw_executed,
                                      inserted |-> inserted])} :
                         /\ inserted' = st.inserted
                         /\ mw_executed' = st.executed
                         /\ IF ~mw_dry_run /\ total_rows' % CommitEvery = 0
                            THEN /\ mwi_counts' = mwi_counts \cup st.txn
                                 /\ mw_txn' = {}
                            ELSE /\ mwi_counts' = mwi_counts
                                 /\ mw_txn' = st.txn
  /\ UNCHANGED <<mw_pc, mw_dry_run, storeVars, runVars, parseVars, resolveVars,
                 probeVars, mainVars, extractVars, crawlVars>>

\* The end of the file: the final conn.commit(), the summary, conn.close()
FinishIngest ==
  /\ mw_pc = "rows"
  /\ mw_pc' = "returned"
  /\ mwi_counts' = IF mw_dry_run THEN mwi_counts ELSE mwi_counts \cup mw_txn
  /\ mw_txn' = {}
  /\ UNCHANGED <<mw_dry_run, mw_read, total_rows, inserted, mw_executed,
                 storeVars, runVars, parseVars, resolveVars, probeVars, mainVars,
                 extractVars, crawlVars>>

\* The table holds no MWI row or one left by an earlier ingestion.
InitIngest ==
  /\ IdleStore /\ IdleRun /\ IdleParse /\ IdleResolve /\ IdleProbe /\ IdleMain
  /\ IdleExtract /\ IdleCrawl
  /\ mw_pc = "idle" /\ mw_dry_run = FALSE /\ mw_read = 0 /\ total_rows = 0
  /\ inserted = 0 /\ mw_txn = {} /\ mw_executed = {}
  /\ mwi_counts \in {{}, {MwiKey(<<"2","0","2","0">>, "mallard")}}

NextIngest == StartIngest \/ IngestRow \/ FinishIngest

SpecIngest == InitIngest /\ [][NextIngest]_vars

\* C28: a failed INSERT of one count affects only that count: once
\* ingest_csv has finished, every count whose INSERT executed without error
\* is in refuge_counts, whatever the interleaving of failing and succeeding
\* inserts between two commits.
C28_ExecutedInsertsPersist ==
  mw_pc = "returned" => mw_executed \subseteq mwi_counts

\* ---------------------------------------------------------------------
\* scrapers/state_regulations.py: StateRegulationsScraper._scrape_state
\* ---------------------------------------------------------------------

MaxLinks == 2

\* s.endswith(suffix)
EndsWith(s, suffix) ==
  Len(s) >= Len(suffix) /\ SubSeq(s, Len(s) - Len(suffix) + 1, Len(s)) = suffix

\* s.lstrip(chars): drops leading characters that occur in chars
RECURSIVE LStripChars(_, _)
LStripChars(s, chars) ==
  IF s # <<>> /\ \E i \in DOMAIN chars : chars[i] = s[1]
  THEN LStripChars(Tail(s), chars) ELSE s

\* the least index from which sub occurs in s, Len(s) + 1 when it does not
IndexOf(s, sub) ==
  LET hits == {i \in 1..(Len(s) - Len(sub) + 1) :
                 SubSeq(s, i, i + Len(sub) - 1) = sub}
  IN IF hits = {} THEN Len(s) + 1 ELSE CHOOSE i \in hits : \A j \in hits : i <= j

\* the least index of s at which one of the characters of chars stands
IndexOfAny(s, chars) ==
  LET hits == {i \in DOMAIN s : \E k \in DOMAIN chars : chars[k] = s[i]}
  IN IF hits = {} THEN Len(s) + 1 ELSE CHOOSE i \in hits : \A j \in hits : i <= j

\* url.split("#")[0]
StripFragment(url) == SubSeq(url, 1, IndexOf(url, <<"#">>) - 1)

\* urlparse(url) for an http(s) URL: netloc runs from "//" to the next "/",
\* "?" or "#", and path from there to the next "?" or "#"
urlparse(url) ==
  LET k == IndexOf(url, <<":","/","/">>)
      rest == IF k > Len(url) THEN url ELSE SubSeq(url, k + 3, Len(url))
      n == IF k > Len(url) THEN 1 ELSE IndexOfAny(rest, <<"/","?","#">>)
      tail == SubSeq(rest, n, Len(rest))
  IN [netloc |-> SubSeq(rest, 1, n - 1),
      path |-> SubSeq(tail, 1, IndexOfAny(tail, <<"?","#">>) - 1)]

\* _is_allowed_domain
is_allowed_domain(url, allowed_domains) ==
  LET host == LStripChars(urlparse(url).netloc, <<"w","w","w",".">>)
  IN \E i \in DOMAIN allowed_domains :
       LET dom == LStripChars(allowed_domains[i], <<"w","w","w",".">>)
       IN host = dom \/ EndsWith(host, <<".">> \o dom)

\* _is_relevant_link: a keyword occurs in the lowercased path
is_relevant_link(href, keywords) ==
  \E i \in DOMAIN keywords : Contains(Lower(urlparse(href).path), keywords[i])

\* _is_relevant_pdf: the raw href ends in .pdf and holds a keyword
is_relevant_pdf(href, keywords) ==
  /\ EndsWith(Lower(href), <<".","p","d","f">>)
  /\ \E i \in DOMAIN keywords : Contains(Lower(href), keywords[i])

\* STATE_SOURCES["TX"] with its start_urls left to the model
TxConfig ==
  [allowed_domains |-> <<<<"t","p","w","d",".","t","e","x","a","s",".","g","o","v">>>>,
   link_keywords |-> <<<<"m","i","g","r","a","t","o","r","y","-","g","a","m","e","-","b","i","r","d","s">>, <<"w","a","t","e","r","f","o","w","l">>, <<"l","i","c","e","n","s","e","s">>,
                       <<"d","u","c","k">>, <<"g","o","o","s","e">>>>,
   pdf_keywords |-> <<<<"w","a","t","e","r","f","o","w","l">>, <<"m","i","g","r","a","t","o","r","y">>, <<"d","u","c","k">>, <<"g","o","o","s","e">>>>]

DuckPage == <<"h","t","t","p","s",":","/","/","t","p","w","d",".","t","e","x","a","s",".","g","o","v","/","d","u","c","k">>
GoosePage == <<"h","t","t","p","s",":","/","/","t","p","w","d",".","t","e","x","a","s",".","g","o","v","/","g","o","o","s","e">>
MigratoryPdf == <<"h","t","t","p","s",":","/","/","t","p","w","d",".","t","e","x","a","s",".","g","o","v","/","f","/","m","i","g","r","a","t","o","r","y",".","p","d","f">>

\* the href attributes an anchor of a page may carry (all absolute, for
\* which response.urljoin(href) is href)
HrefPool ==
  {DuckPage, GoosePage, GoosePage \o <<"#","t","o","p">>, MigratoryPdf,
   <<"h","t","t","p","s",":","/","/","x",".","o","r","g","/","d","u","c","k">>, <<>>}

\* what the loop over the anchors does with one href: "skip" when the href
\* is empty or outside the allowed domains, "queue" for a relevant link,
\* "pdf" for a relevant PDF, "none" otherwise (the tests on visited and
\* queue aside)
LinkKind ==
  [href \in HrefPool |->
     IF href = <<>> THEN "skip"
     ELSE IF ~is_allowed_domain(StripFragment(href), TxConfig.allowed_domains)
          THEN "skip"
     ELSE IF is_relevant_link(StripFragment(href), TxConfig.link_keywords)
          THEN "queue"
     ELSE IF is_relevant_pdf(href, TxConfig.pdf_keywords) THEN "pdf"
     ELSE "none"]

FullUrl == [href \in HrefPool |-> StripFragment(href)]

InQueue(q, url) == \E i \in DOMAIN q : q[i] = url

\* The loop over the anchors of one page. st holds queue, stored and the
\* requests; got[i] tells whether the download of the i-th anchor's PDF
\* returns a document of more than 200 characters.
RECURSIVE FollowLinks(_, _, _, _, _, _)
FollowLinks(links, i, seen, dry, got, st) ==
  IF i > Len(links) THEN st
  ELSE LET href == links[i]
           full_url == FullUrl[href]
           next ==
             IF href = <<>> THEN st
             ELSE IF full_url \in seen \/ InQueue(st.queue, full_url) THEN st
             ELSE IF LinkKind[href] = "skip" THEN st
             ELSE IF LinkKind[href] = "queue"
                  THEN [st EXCEPT !.queue = Append(@, full_url)]
             ELSE IF LinkKind[href] = "pdf"
                  THEN IF dry THEN [st EXCEPT !.stored = @ + 1]
                       ELSE [st EXCEPT
                               !.requests = Append(@, [kind |-> "PDF",
                                                       url |-> full_url]),
                               !.stored = IF got[i] THEN @ + 1 ELSE @]
             ELSE st
       IN FollowLinks(links, i + 1, seen, dry, got, next)

\* the link graphs of the model: each page answers 200 with up to MaxLinks
\* anchors, or does not answer
Sites ==
  UNION {[pages -> SeqsUpTo(HrefPool, MaxLinks)] :
           pages \in SUBSET {DuckPage, GoosePage}}

StartUrlLists ==
  {<<DuckPage>>, <<DuckPage \o <<"#","a">>, DuckPage>>, <<GoosePage, DuckPage>>,
   <<DuckPage, MigratoryPdf>>}

\* _scrape_state up to the loop: visited is empty and the queue holds the
\* start URLs without their fragments
StartCrawl ==
  /\ cr_pc = "idle"
  /\ cr_pc' = "crawl"
  /\ cr_dry_run' \in BOOLEAN
  /\ \E start_urls \in StartUrlLists :
       queue' = [i \in DOMAIN start_urls |-> StripFragment(start_urls[i])]
  /\ visited' = {}
  /\ stored' = 0
  /\ UNCHANGED <<site, requests, storeVars, runVars, parseVars, resolveVars,
                 probeVars, mainVars, extractVars, ingestVars>>

\* One iteration of the while loop: pop a URL, fetch it unless visited,
\* count the page when it has enough text and walk its anchors
CrawlStep ==
  /\ cr_pc = "crawl" /\ queue # <<>>
  /\ LET url == Head(queue) IN
       IF url \in visited
       THEN /\ queue' = Tail(queue)
            /\ UNCHANGED <<visited, stored, requests>>
       ELSE /\ visited' = visited \cup {url}
            /\ IF url \notin DOMAIN site
               THEN /\ queue' = Tail(queue)
                    /\ stored' = stored
                    /\ requests' = Append(requests, [kind |-> "GET", url |-> url])
               ELSE \E rich \in BOOLEAN, got \in [1..Len(site[url]) -> BOOLEAN] :
                      \E st \in {FollowLinks(site[url], 1, visited', cr_dry_run, got,
                                   [queue |-> Tail(queue),
                                    stored |-> IF rich THEN stored + 1 ELSE stored,
                                    requests |-> Append(requests,
                                       [kind |-> "GET", url |-> url])])} :
                        /\ queue' = st.queue
                        /\ stored' = st.stored
                        /\ requests' = st.requests
  /\ UNCHANGED <<cr_pc, cr_dry_run, site, storeVars, runVars, parseVars,
                 resolveVars, probeVars, mainVars, extractVars, ingestVars>>

\* the queue is empty: return stored
FinishCrawl ==
  /\ cr_pc = "crawl" /\ queue = <<>>
  /\ cr_pc' = "returned"
  /\ UNCHANGED <<cr_dry_run, site, visited, queue, stored, requests, storeVars,
                 runVars, parseVars, resolveVars, probeVars, mainVars, extractVars,
                 ingestVars>>

InitCrawl ==
  /\ IdleStore /\ IdleRun /\ IdleParse /\ IdleResolve /\ IdleProbe /\ IdleMain
  /\ IdleExtract /\ IdleIngest
  /\ cr_pc = "idle" /\ cr_dry_run = FALSE /\ visited = {} /\ queue = <<>>
  /\ stored = 0 /\ requests = <<>>
  /\ site \in Sites

NextCrawl == StartCrawl \/ CrawlStep \/ FinishCrawl

SpecCrawl == InitCrawl /\ [][NextCrawl]_vars

\* C30: during one _scrape_state crawl every URL, page or PDF, is requested
\* at most once: no two requests of the crawl are for the same URL.
C30_EachUrlRequestedOnce ==
  \A i, j \in DOMAIN requests : i # j => requests[i].url # requests[j].url
====
